---- MODULE Spec2Model ----
(***************************************************************************)
(* Model of the Ludo Socket.IO server (src/server.js) with its Redis user  *)
(* store (src/unnamed/part_000, required as ./redis-client).               *)
(*                                                                         *)
(* One action per socket handler, timer callback or continuation of an     *)
(* async handler.  A handler runs to its next await on real I/O (a Redis   *)
(* command); a Redis command takes effect in the order it is issued, the   *)
(* code after the await runs in a later step.  With Redis not ready no     *)
(* await suspends on I/O and the handler is one step.                      *)
(***************************************************************************)
EXTENDS Integers, Sequences, FiniteSets, TLC

\* ---------------------------------------------------------------- bounds
\* per specification: room objects created, calls of
\* updatePlayerCoinsAndStats per room object, handlers suspended on Redis
TableRooms   == 1
TableSettle  == 2
FourRooms    == 1
FourSettle   == 1
WildRooms    == 2
WildSettle   == 1
FriendRooms  == 1
FriendSettle == 1
RedisRooms   == 1
RedisTasks   == 2
TurnRooms    == 1
TurnSettle   == 1
TurnMoves    == 1
GraceRooms   == 1
GraceSettle  == 1
QuadRooms    == 1
QuadSettle   == 1
IdleRooms    == 2
IdleSettle   == 1
LobbyRooms   == 3
QuietRooms   == 1
QuietSettle  == 1
RoundRooms   == 1
RoundSettle  == 1
PassRooms    == 1
PassSettle   == 1
LoopRooms    == 1
LoopTasks    == 2
LoopSettle   == 1

\* ------------------------------------------------------ program constants
GAME_STATUS_WAITING  == "waiting"
GAME_STATUS_PLAYING  == "playing"
GAME_STATUS_FINISHED == "finished"

PLAYER_STATUS_PLAYING == 0
PLAYER_STATUS_WIN     == 1
PLAYER_STATUS_LEFT    == 2
PLAYER_STATUS_TIMEOUT == 3

StartCoins  == 1000   \* coins of a user created by get_userdata
MaxTimeouts == 3      \* strikes after which the turn timer marks TIMEOUT

\* ------------------------------------------------- values clients may send
UserIds   == {"A", "B", "C", "D"}
DiceValues == {6}                 \* dice_face of dice_send
RoomCodes == {"ABC123"}           \* room_code a client may supply
NoCode    == ""                   \* falsy room_code: the server mints one

Null   == "null"                  \* JS null / undefined
NoUser == [coins |-> -1, winCount |-> -1, lostCount |-> -1,
           totalGamesPlayed |-> -1, level |-> -1]

\* ------------------------------------------------------------- sequences
RECURSIVE SeqSum(_)
SeqSum(s) == IF s = <<>> THEN 0 ELSE Head(s) + SeqSum(Tail(s))

Count(s, Test(_)) == Len(SelectSeq(s, Test))

\* Array.prototype.findIndex, 1-based; 0 when nothing matches
FindIndex(s, Test(_)) ==
    IF \E i \in 1 .. Len(s) : Test(s[i])
    THEN CHOOSE i \in 1 .. Len(s) : Test(s[i]) /\ \A j \in 1 .. (i - 1) : ~Test(s[j])
    ELSE 0

\* Array.prototype.splice(i, 1), 1-based
RemoveAt(s, i) == [j \in 1 .. (Len(s) - 1) |-> IF j < i THEN s[j] ELSE s[j + 1]]

\* ---------------------------------------------------------------- helpers
createRoom(roomId, hostUserId, betAmount, playerCount) ==
    [roomId |-> roomId, hostUserId |-> hostUserId, betAmount |-> betAmount,
     maxPlayers |-> playerCount, status |-> GAME_STATUS_WAITING,
     players |-> <<>>, currentTurn |-> 0, turnTimer |-> Null,
     gameData |-> [lastDice |-> 0, moves |-> <<>>]]

createPlayer(userId, peerId, socketId) ==
    [userId |-> userId, peerId |-> peerId, socketId |-> socketId,
     status |-> PLAYER_STATUS_PLAYING, numoftimeout |-> 0]

IsPlaying(p) == p.status = PLAYER_STATUS_PLAYING
IsWin(p)     == p.status = PLAYER_STATUS_WIN

\* a count of the PLAYING players that leaves one out
PlayingCountLessOne(room) == Count(room.players, IsPlaying) - 1

PlayingCount(room) == Count(room.players, IsPlaying)

\* getNextTurn: index (0-based) of the next PLAYING player, -1 when none.
\* room.players[i] of the code is room.players[i + 1] here.
RECURSIVE ScanTurn(_, _, _)
ScanTurn(room, nextIndex, attempts) ==
    IF attempts >= Len(room.players) THEN -1
    ELSE IF IsPlaying(room.players[nextIndex + 1]) THEN nextIndex
    ELSE ScanTurn(room, (nextIndex + 1) % Len(room.players), attempts + 1)

\* a turn order that also gives the turn to players who have already won
getNextTurnCountsWin(room) ==
    LET N == Len(room.players)
        active == {i \in 0 .. N - 1 : IsPlaying(room.players[i + 1])
                                       \/ IsWin(room.players[i + 1])}
        after(i) == (i + N - room.currentTurn - 1) % N
    IN  IF active = {} THEN -1
        ELSE CHOOSE i \in active : \A j \in active : after(i) <= after(j)

\* a turn order in which the turn never leaves the current player
getNextTurnStays(room) == room.currentTurn

getNextTurn(room) ==
    IF Len(SelectSeq(room.players, LAMBDA p : IsPlaying(p) \/ IsWin(p))) = 0
    THEN -1
    ELSE ScanTurn(room, (room.currentTurn + 1) % Len(room.players), 0)

\* a comparator that also puts the higher seat first among WIN players
WinFirstHighSeatAhead(a, b) ==
    IF IsWin(a) /\ ~IsWin(b) THEN -1
    ELSE IF ~IsWin(a) /\ IsWin(b) THEN 1
    ELSE IF IsWin(a) /\ IsWin(b) /\ a.peerId > b.peerId THEN -1
    ELSE 0

\* comparator of the sort in calculateGameResults
WinFirst(a, b) ==
    IF IsWin(a) /\ ~IsWin(b) THEN -1
    ELSE IF ~IsWin(a) /\ IsWin(b) THEN 1
    ELSE 0

\* Array.prototype.sort is stable: insert each element after the last
\* element it does not precede.
RECURSIVE InsertSorted(_, _)
InsertSorted(sorted, x) ==
    IF sorted = <<>> THEN <<x>>
    ELSE IF WinFirst(x, Head(sorted)) < 0 THEN <<x>> \o sorted
    ELSE <<Head(sorted)>> \o InsertSorted(Tail(sorted), x)

RECURSIVE StableSort(_)
StableSort(s) ==
    IF s = <<>> THEN <<>>
    ELSE InsertSorted(StableSort(SubSeq(s, 1, Len(s) - 1)), s[Len(s)])

\* a payout table in which only the first rank of a four-player room is paid
winningCoinTopOnly(player, player_rank, betAmount, playerCount) ==
    IF IsWin(player)
    THEN IF playerCount = 2 THEN betAmount * 2
         ELSE IF playerCount = 4 /\ player_rank = 1 THEN betAmount * 3
         ELSE 0
    ELSE 0

winningCoin(player, player_rank, betAmount, playerCount) ==
    IF IsWin(player)
    THEN IF playerCount = 2 THEN betAmount * 2
         ELSE IF playerCount = 4
              THEN IF player_rank = 1 THEN betAmount * 3
                   ELSE IF player_rank = 2 THEN betAmount
                   ELSE 0
              ELSE 0
    ELSE 0

calculateGameResults(room) ==
    LET sortedPlayers == StableSort(room.players)
    IN  [index \in 1 .. Len(sortedPlayers) |->
            [user_id |-> sortedPlayers[index].userId,
             winning_coin |-> winningCoin(sortedPlayers[index], index,
                                          room.betAmount, room.maxPlayers),
             player_rank |-> index,
             player_status |-> sortedPlayers[index].status]]

\* a settlement loop body that counts the game but credits no coins
creditUserStatsOnly(user, result) ==
    [user EXCEPT !.totalGamesPlayed = @ + 1]

\* the body of the loop of updatePlayerCoinsAndStats, on one user record
creditUser(user, result) ==
    LET wins == IF result.player_status = PLAYER_STATUS_WIN
                THEN user.winCount + 1 ELSE user.winCount
    IN  [coins |-> user.coins + result.winning_coin,
         totalGamesPlayed |-> user.totalGamesPlayed + 1,
         winCount |-> wins,
         lostCount |-> IF result.player_status = PLAYER_STATUS_WIN
                       THEN user.lostCount ELSE user.lostCount + 1,
         level |-> IF result.player_status = PLAYER_STATUS_WIN
                   THEN 1 + (wins \div 10) ELSE user.level]

\* ------------------------------------------------------------------ state
VARIABLES
    redisReady,     \* redisClient.isReady, the value of isRedisConnected()
    users,          \* the in-memory Map users: userId -> user record
    redis,          \* the Redis keys user:{userId}
    objs,           \* every room object created so far, in creation order
    rooms,          \* the Map rooms: entries [key, obj] in insertion order
    sockets,        \* per connection: state, socket.currentRoomId, socket.userId
    userSockets,    \* the Map userSockets: userId -> socket.id, 0 for no entry
    turnTimers,     \* per room object: turn-timer callbacks not yet fired
    settleTimers,   \* per room object: 2 s delayed settlements not yet run
    cleanupTimers,  \* keys of the 10 s rooms.delete callbacks, oldest first
    graceTimers,    \* per connection: the 30 s disconnect callback, or Null
    tasks,          \* async handlers suspended on a Redis command
    out,            \* events emitted by the last step, in order
    ledger          \* history, per room object: bet_amount deducted for its
                    \* seats, winning_coin credited, and the calls of
                    \* updatePlayerCoinsAndStats (runs)

vars == <<redisReady, users, redis, objs, rooms, sockets, userSockets, turnTimers,
          settleTimers, cleanupTimers, graceTimers, tasks, out, ledger>>

SocketIds == 1 .. 2                 \* socket.id of the connections
ObjIds    == 1 .. Len(objs)
UuidOf(i) == ToString(i)            \* uuidv4() of the i-th room object
MintOf(i) == "M" \o ToString(i)     \* uuidv4().substring(0, 6).toUpperCase()

Ev(ev, to, data) == [ev |-> ev, to |-> to, data |-> data]
NoGrace == [userId |-> Null, peerId |-> -1, roomId |-> Null]

\* the room ids clients have been sent (of rooms still registered or not),
\* and every key a client may name
RoomIds   == {objs[i].roomId : i \in ObjIds}
KeyInputs == RoomCodes \cup RoomIds

Init ==
    /\ redisReady = FALSE
    /\ users = [u \in UserIds |-> NoUser]
    /\ redis = [u \in UserIds |-> NoUser]
    /\ objs = <<>>
    /\ rooms = <<>>
    /\ sockets = [s \in SocketIds |->
                      [state |-> "idle", currentRoomId |-> Null, userId |-> Null]]
    /\ userSockets = [u \in UserIds |-> 0]
    /\ turnTimers = <<>>
    /\ settleTimers = <<>>
    /\ cleanupTimers = <<>>
    /\ graceTimers = [s \in SocketIds |-> NoGrace]
    /\ tasks = <<>>
    /\ out = <<>>
    /\ ledger = <<>>

\* ------------------------------------------------------- the rooms Map
\* rooms.get(key): the room object's index, 0 for undefined
RoomsGet(key) ==
    LET i == FindIndex(rooms, LAMBDA e : e.key = key)
    IN  IF i = 0 THEN 0 ELSE rooms[i].obj

\* rooms.set(key, obj): an existing key keeps its place and gets the new value
RoomsSet(map, key, obj) ==
    LET i == FindIndex(map, LAMBDA e : e.key = key)
    IN  IF i = 0 THEN Append(map, [key |-> key, obj |-> obj])
        ELSE [map EXCEPT ![i] = [key |-> key, obj |-> obj]]

\* rooms.delete(key)
RoomsDelete(map, key) == SelectSeq(map, LAMBDA e : e.key # key)

\* a search that returns the room inserted last among those that match
findLatestAvailableRoom(map, heap, betAmount, playerCount) ==
    LET hits == {i \in 1 .. Len(map) :
                    /\ heap[map[i].obj].status = GAME_STATUS_WAITING
                    /\ heap[map[i].obj].betAmount = betAmount
                    /\ heap[map[i].obj].maxPlayers = playerCount
                    /\ Len(heap[map[i].obj].players) < playerCount}
    IN  IF hits = {} THEN 0
        ELSE map[CHOOSE i \in hits : \A j \in hits : j <= i].obj

\* findAvailableRoom over a registry and the objects it refers to
findAvailableRoom(map, heap, betAmount, playerCount) ==
    LET i == FindIndex(map, LAMBDA e :
                 /\ heap[e.obj].status = GAME_STATUS_WAITING
                 /\ heap[e.obj].betAmount = betAmount
                 /\ heap[e.obj].maxPlayers = playerCount
                 /\ Len(heap[e.obj].players) < playerCount)
    IN  IF i = 0 THEN 0 ELSE map[i].obj

\* ------------------------------------------------------- the turn timer
\* A room and the number of its pending turn-timer callbacks, as one value.
\* clearTimeout cancels the callback the handle refers to if it is pending.
clearTimeout(rt) ==
    IF rt.room.turnTimer # Null /\ rt.pending > 0 THEN rt.pending - 1 ELSE rt.pending

\* startTurnTimer without lines 120-122 (the previous timer is not cancelled)
startTurnTimerKeepsOld(rt) ==
    [room |-> [rt.room EXCEPT !.turnTimer = "timer"],
     pending |-> rt.pending + 1]

startTurnTimer(rt) ==
    [room |-> [rt.room EXCEPT !.turnTimer = "timer"],
     pending |-> clearTimeout(rt) + 1]

clearTurnTimer(rt) ==
    [room |-> [rt.room EXCEPT !.turnTimer = Null],
     pending |-> clearTimeout(rt)]

RT(o) == [room |-> objs[o], pending |-> turnTimers[o]]

\* write a room object and its pending-timer count back
PutRT(o, rt) ==
    /\ objs' = [objs EXCEPT ![o] = rt.room]
    /\ turnTimers' = [turnTimers EXCEPT ![o] = rt.pending]

\* --------------------------------------------------------- environment
Connect(s) ==
    /\ sockets[s].state = "idle"
    /\ sockets' = [sockets EXCEPT ![s].state = "open"]
    /\ out' = <<>>
    /\ UNCHANGED <<redisReady, users, redis, objs, rooms, turnTimers, settleTimers,
                   cleanupTimers, graceTimers, tasks, ledger>>
    /\ UNCHANGED userSockets

\* redisClient becomes ready, or its connection ends
RedisFlip ==
    /\ redisReady' = ~redisReady
    /\ out' = <<>>
    /\ UNCHANGED <<users, redis, objs, rooms, sockets, turnTimers, settleTimers,
                   cleanupTimers, graceTimers, tasks, ledger>>
    /\ UNCHANGED userSockets

IsOpen(s) == sockets[s].state = "open"

\* ---------------------------------------------------------------- add_user
AddUser(s, user_id) ==
    /\ IsOpen(s)
    /\ userSockets' = [userSockets EXCEPT ![user_id] = s]
    /\ sockets' = [sockets EXCEPT ![s].userId = user_id]
    /\ out' = <<Ev("auth_token", "socket", user_id)>>
    /\ UNCHANGED <<redisReady, users, redis, objs, rooms, turnTimers, settleTimers,
                   cleanupTimers, graceTimers, tasks, ledger>>

\* ----------------------------------------------------------- get_userdata
\* a new user that starts without coins
newUserBroke == [coins |-> 0, level |-> 1, winCount |-> 0, lostCount |-> 0,
                 totalGamesPlayed |-> 0]

newUser == [coins |-> StartCoins, level |-> 1, winCount |-> 0, lostCount |-> 0,
            totalGamesPlayed |-> 0]

userData(user) == [user_coin |-> user.coins, numof_win |-> user.winCount,
                   numof_lose |-> user.lostCount, user_level |-> user.level,
                   total_games |-> user.totalGamesPlayed]

\* the handler from the value getUser / users.get returned; rest: the other tasks
GetUserdataAfterGet(s, user_id, user, rest) ==
    LET u2 == IF user = NoUser THEN newUser ELSE user
    IN  /\ IF user = NoUser
           THEN IF redisReady
                THEN /\ redis' = [redis EXCEPT ![user_id] = u2]
                     /\ tasks' = Append(rest, [kind |-> "gu_save", sock |-> s,
                                               user_id |-> user_id, user |-> u2])
                     /\ out' = <<>>
                     /\ UNCHANGED users
                ELSE /\ users' = [users EXCEPT ![user_id] = u2]
                     /\ tasks' = rest
                     /\ out' = <<Ev("user_data", "socket", userData(u2))>>
                     /\ UNCHANGED redis
           ELSE /\ tasks' = rest
                /\ out' = <<Ev("user_data", "socket", userData(u2))>>
                /\ UNCHANGED <<users, redis>>
        /\ UNCHANGED <<redisReady, objs, rooms, sockets, turnTimers, settleTimers,
                       cleanupTimers, graceTimers, ledger>>

GetUserdata(s, user_id) ==
    /\ IsOpen(s)
    /\ IF redisReady
       THEN /\ tasks' = Append(tasks, [kind |-> "gu_get", sock |-> s,
                                       user_id |-> user_id, user |-> redis[user_id]])
            /\ out' = <<>>
            /\ UNCHANGED <<redisReady, users, redis, objs, rooms, sockets, turnTimers,
                           settleTimers, cleanupTimers, graceTimers, ledger>>
       ELSE GetUserdataAfterGet(s, user_id, users[user_id], tasks)
    /\ UNCHANGED userSockets

Others(i) == RemoveAt(tasks, i)

GetUserdataResume(i) ==
    /\ i \in 1 .. Len(tasks)
    /\ \/ /\ tasks[i].kind = "gu_get"
          /\ GetUserdataAfterGet(tasks[i].sock, tasks[i].user_id, tasks[i].user, Others(i))
       \/ /\ tasks[i].kind = "gu_save"
          /\ tasks' = Others(i)
          /\ out' = <<Ev("user_data", "socket", userData(tasks[i].user))>>
          /\ UNCHANGED <<redisReady, users, redis, objs, rooms, sockets, turnTimers,
                         settleTimers, cleanupTimers, graceTimers, ledger>>
    /\ UNCHANGED userSockets

\* ------------------------------------------------ updatePlayerCoinsAndStats
\* the loop on the in-memory map, from results[idx] on (Redis not ready)
RECURSIVE creditInMemory(_, _, _)
creditInMemory(map, results, idx) ==
    IF idx > Len(results) THEN map
    ELSE LET id == results[idx].user_id
         IN  IF map[id] = NoUser
             THEN creditInMemory(map, results, idx + 1)
             ELSE creditInMemory([map EXCEPT ![id] = creditUser(map[id], results[idx])],
                                 results, idx + 1)

\* the winning_coin that loop adds to users' coins
RECURSIVE creditedInMemory(_, _, _)
creditedInMemory(map, results, idx) ==
    IF idx > Len(results) THEN 0
    ELSE (IF map[results[idx].user_id] = NoUser THEN 0 ELSE results[idx].winning_coin)
         + creditedInMemory(map, results, idx + 1)

GameOver(results) == Ev("game_over", "room", [results |-> results])

\* The loop of updatePlayerCoinsAndStats from results[idx] on, and what its
\* caller does after it: emit game_over, and in win_game schedule the
\* rooms.delete.  call = [obj, results, then, roomId]; map: users as the step
\* has left it; book: the ledger as the step has left it; pre: events the step
\* has emitted; rest: the other tasks.
\* With Redis ready the loop suspends on getUser of results[idx].
settleFrom(call, idx, map, book, pre, rest) ==
    IF idx <= Len(call.results) /\ redisReady
    THEN /\ tasks' = Append(rest, [kind |-> "st_get", call |-> call, idx |-> idx,
                                   user |-> redis[call.results[idx].user_id]])
         /\ users' = map
         /\ ledger' = book
         /\ out' = pre
         /\ UNCHANGED <<redis, cleanupTimers>>
    ELSE /\ users' = creditInMemory(map, call.results, idx)
         /\ ledger' = [book EXCEPT ![call.obj].credited =
                          @ + creditedInMemory(map, call.results, idx)]
         /\ tasks' = rest
         /\ out' = Append(pre, GameOver(call.results))
         /\ cleanupTimers' = IF call.then = "win_game"
                             THEN Append(cleanupTimers, call.roomId)
                             ELSE cleanupTimers
         /\ UNCHANGED redis

\* a call of updatePlayerCoinsAndStats(room, results) on room object o
updatePlayerCoinsAndStats(o, results, then, roomId, pre) ==
    settleFrom([obj |-> o, results |-> results, then |-> then, roomId |-> roomId],
               1, users, [ledger EXCEPT ![o].runs = @ + 1], pre, tasks)

\* the loop resumes after await getUser, or after await saveUser and
\* await updateLeaderboard
SettleResume(i) ==
    /\ i \in 1 .. Len(tasks)
    /\ LET t == tasks[i]
       IN  \/ /\ t.kind = "st_get"
              /\ LET result == t.call.results[t.idx]
                     paid == [ledger EXCEPT ![t.call.obj].credited =
                                 @ + result.winning_coin]
                 IN  IF t.user = NoUser
                     THEN settleFrom(t.call, t.idx + 1, users, ledger, <<>>, Others(i))
                     ELSE IF redisReady
                     THEN /\ redis' = [redis EXCEPT ![result.user_id] =
                                           creditUser(t.user, result)]
                          /\ ledger' = paid
                          /\ tasks' = Append(Others(i), [kind |-> "st_save",
                                                call |-> t.call, idx |-> t.idx])
                          /\ out' = <<>>
                          /\ UNCHANGED <<users, cleanupTimers>>
                     ELSE settleFrom(t.call, t.idx + 1,
                                     [users EXCEPT ![result.user_id] =
                                          creditUser(t.user, result)],
                                     paid, <<>>, Others(i))
           \/ /\ t.kind = "st_save"
              /\ settleFrom(t.call, t.idx + 1, users, ledger, <<>>, Others(i))
    /\ UNCHANGED <<redisReady, objs, rooms, sockets, turnTimers, settleTimers,
                   graceTimers>>
    /\ UNCHANGED userSockets

\* ----------------------------------------------------------- request_join
\* gameStartData is built from the roster; the payload here is the roster size
gameStart(room) == Ev("game_start", "room", Len(room.players))

\* lines 413-470: seat the caller, start the game when the roster is full
Seat(s, user_id, bet_amount, player_count) ==
    LET found == findAvailableRoom(rooms, objs, bet_amount, player_count)
        o     == IF found = 0 THEN Len(objs) + 1 ELSE found
        room  == IF found = 0
                 THEN createRoom(UuidOf(o), user_id, bet_amount, player_count)
                 ELSE objs[found]
        player == createPlayer(user_id, Len(room.players), s)
        joined == [room EXCEPT !.players = Append(@, player)]
        full   == Len(joined.players) = joined.maxPlayers
        rt     == IF full
                  THEN startTurnTimer(
                         [room |-> [joined EXCEPT !.status = GAME_STATUS_PLAYING,
                                                  !.currentTurn = 0],
                          pending |-> IF found = 0 THEN 0 ELSE turnTimers[found]])
                  ELSE [room |-> joined,
                        pending |-> IF found = 0 THEN 0 ELSE turnTimers[found]]
    IN  /\ IF found = 0
           THEN /\ objs' = Append(objs, rt.room)
                /\ turnTimers' = Append(turnTimers, rt.pending)
                /\ settleTimers' = Append(settleTimers, 0)
                /\ ledger' = Append(ledger, [deducted |-> bet_amount, credited |-> 0,
                                              runs |-> 0])
                /\ rooms' = RoomsSet(rooms, room.roomId, o)
           ELSE /\ PutRT(o, rt)
                /\ ledger' = [ledger EXCEPT ![o].deducted = @ + bet_amount]
                /\ UNCHANGED <<settleTimers, rooms>>
        /\ sockets' = [sockets EXCEPT ![s].currentRoomId = room.roomId]
        /\ out' = IF full THEN <<gameStart(rt.room)>> ELSE <<>>

\* lines 387-411, from the value getUser / users.get returned
RequestJoinAfterGet(s, user_id, bet_amount, player_count, user, rest) ==
    IF user = NoUser
    THEN /\ out' = <<Ev("error", "socket", "User not found")>>
         /\ tasks' = rest
         /\ UNCHANGED <<redisReady, users, redis, objs, rooms, sockets, turnTimers,
                        settleTimers, cleanupTimers, graceTimers, ledger>>
    ELSE IF user.coins < bet_amount
    THEN /\ out' = <<Ev("insufficient_coins", "socket",
                        [required |-> bet_amount, current |-> user.coins])>>
         /\ tasks' = rest
         /\ UNCHANGED <<redisReady, users, redis, objs, rooms, sockets, turnTimers,
                        settleTimers, cleanupTimers, graceTimers, ledger>>
    ELSE LET paid == [user EXCEPT !.coins = @ - bet_amount]
         IN  IF redisReady
             THEN /\ redis' = [redis EXCEPT ![user_id] = paid]
                  /\ tasks' = Append(rest, [kind |-> "rj_save", sock |-> s,
                                 user_id |-> user_id, bet_amount |-> bet_amount,
                                 player_count |-> player_count])
                  /\ out' = <<>>
                  /\ UNCHANGED <<redisReady, users, objs, rooms, sockets, turnTimers,
                                 settleTimers, cleanupTimers, graceTimers, ledger>>
             ELSE /\ users' = [users EXCEPT ![user_id] = paid]
                  /\ tasks' = rest
                  /\ Seat(s, user_id, bet_amount, player_count)
                  /\ UNCHANGED <<redisReady, redis, cleanupTimers, graceTimers>>

RequestJoin(s, user_id, bet_amount, player_count) ==
    /\ IsOpen(s)
    /\ IF redisReady
       THEN /\ tasks' = Append(tasks, [kind |-> "rj_get", sock |-> s,
                           user_id |-> user_id, bet_amount |-> bet_amount,
                           player_count |-> player_count, user |-> redis[user_id]])
            /\ out' = <<>>
            /\ UNCHANGED <<redisReady, users, redis, objs, rooms, sockets, turnTimers,
                           settleTimers, cleanupTimers, graceTimers, ledger>>
       ELSE RequestJoinAfterGet(s, user_id, bet_amount, player_count,
                                users[user_id], tasks)
    /\ UNCHANGED userSockets

RequestJoinResume(i) ==
    /\ i \in 1 .. Len(tasks)
    /\ LET t == tasks[i]
       IN  \/ /\ t.kind = "rj_get"
              /\ RequestJoinAfterGet(t.sock, t.user_id, t.bet_amount, t.player_count,
                                     t.user, Others(i))
           \/ /\ t.kind = "rj_save"
              /\ tasks' = Others(i)
              /\ Seat(t.sock, t.user_id, t.bet_amount, t.player_count)
              /\ UNCHANGED <<redisReady, users, redis, cleanupTimers, graceTimers>>
    /\ UNCHANGED userSockets

\* ------------------------------------------------------------ friend rooms
FriendCreateRoom(s, user_id, bet_amount, player_count, room_code) ==
    LET user == users[user_id]
        o    == Len(objs) + 1
        roomId == IF room_code # NoCode THEN room_code ELSE MintOf(o)
        room == [createRoom(roomId, user_id, bet_amount, player_count)
                    EXCEPT !.players = <<createPlayer(user_id, 0, s)>>]
    IN  /\ IsOpen(s)
        /\ IF user = NoUser
           THEN /\ out' = <<Ev("friend_error_response", "socket", "User not found")>>
                /\ UNCHANGED <<users, objs, rooms, sockets, turnTimers, settleTimers,
                               ledger>>
           ELSE IF user.coins < bet_amount
           THEN /\ out' = <<Ev("insufficient_coins", "socket",
                               [required |-> bet_amount, current |-> user.coins])>>
                /\ UNCHANGED <<users, objs, rooms, sockets, turnTimers, settleTimers,
                               ledger>>
           ELSE /\ users' = [users EXCEPT ![user_id].coins = @ - bet_amount]
                /\ objs' = Append(objs, room)
                /\ turnTimers' = Append(turnTimers, 0)
                /\ settleTimers' = Append(settleTimers, 0)
                /\ ledger' = Append(ledger, [deducted |-> bet_amount, credited |-> 0,
                                              runs |-> 0])
                /\ rooms' = RoomsSet(rooms, roomId, o)
                /\ sockets' = [sockets EXCEPT ![s].currentRoomId = roomId]
                /\ out' = <<Ev("friend_room_code", "socket", roomId)>>
        /\ UNCHANGED <<redisReady, redis, cleanupTimers, graceTimers, tasks>>
        /\ UNCHANGED userSockets

FriendJoinRoom(s, user_id, room_code) ==
    LET o == RoomsGet(room_code)
        user == users[user_id]
        room == objs[o]
        player == createPlayer(user_id, Len(room.players), s)
        joined == [room EXCEPT !.players = Append(@, player)]
        full == Len(joined.players) = joined.maxPlayers
        joinedEv == Ev("player_joined", "room",
                       [peer_id |-> player.peerId,
                        player_count |-> Len(joined.players),
                        max_players |-> joined.maxPlayers])
        reply(message) ==
            /\ out' = <<Ev("friend_error_response", "socket", message)>>
            /\ UNCHANGED <<users, objs, sockets, ledger>>
    IN  /\ IsOpen(s)
        /\ IF o = 0 THEN reply("Room not found")
           ELSE IF Len(room.players) >= room.maxPlayers THEN reply("Room is full")
           ELSE IF user = NoUser THEN reply("User not found")
           ELSE IF user.coins < room.betAmount
           THEN /\ out' = <<Ev("insufficient_coins", "socket",
                               [required |-> room.betAmount, current |-> user.coins])>>
                /\ UNCHANGED <<users, objs, sockets, ledger>>
           ELSE /\ users' = [users EXCEPT ![user_id].coins = @ - room.betAmount]
                /\ IF room.status # GAME_STATUS_WAITING
                   THEN /\ out' = <<Ev("friend_error_response", "socket",
                                       "Game already started")>>
                        /\ UNCHANGED <<objs, sockets, ledger>>
                   ELSE /\ sockets' = [sockets EXCEPT ![s].currentRoomId = room_code]
                        /\ ledger' = [ledger EXCEPT ![o].deducted = @ + room.betAmount]
                        /\ IF full
                           THEN /\ objs' = [objs EXCEPT ![o] =
                                              [joined EXCEPT !.status = GAME_STATUS_PLAYING,
                                                             !.currentTurn = 0]]
                                /\ out' = <<joinedEv, gameStart(joined)>>
                           ELSE /\ objs' = [objs EXCEPT ![o] = joined]
                                /\ out' = <<joinedEv>>
        /\ UNCHANGED <<redisReady, redis, rooms, turnTimers, settleTimers,
                       cleanupTimers, graceTimers, tasks>>
        /\ UNCHANGED userSockets

\* --------------------------------------------------------- game actions
\* a handler that found no room: if (!room) return
NoRoom ==
    /\ out' = <<>>
    /\ UNCHANGED <<redisReady, users, redis, objs, rooms, sockets, turnTimers,
                   settleTimers, cleanupTimers, graceTimers, tasks, ledger>>

DiceSend(s, room_id, peer_id, dice_face) ==
    LET o == RoomsGet(room_id)
        rt == startTurnTimer(clearTurnTimer(RT(o)))
    IN  /\ IsOpen(s)
        /\ IF o = 0 THEN NoRoom
           ELSE /\ PutRT(o, [rt EXCEPT !.room.gameData.lastDice = dice_face])
                /\ out' = <<Ev("dice_recieved", "others",
                               [peer_id |-> peer_id, dice_face |-> dice_face])>>
                /\ UNCHANGED <<redisReady, users, redis, rooms, sockets, settleTimers,
                               cleanupTimers, graceTimers, tasks, ledger>>
        /\ UNCHANGED userSockets

TokenSend(s, room_id, peer_id) ==
    LET o == RoomsGet(room_id)
        rt == startTurnTimer(clearTurnTimer(RT(o)))
    IN  /\ IsOpen(s)
        /\ IF o = 0 THEN NoRoom
           ELSE /\ PutRT(o, [rt EXCEPT !.room.gameData.moves =
                                            Append(@, [peerId |-> peer_id])])
                /\ out' = <<Ev("token_recieved", "others",
                               [peer_id |-> peer_id,
                                dice_face |-> objs[o].gameData.lastDice])>>
                /\ UNCHANGED <<redisReady, users, redis, rooms, sockets, settleTimers,
                               cleanupTimers, graceTimers, tasks, ledger>>
        /\ UNCHANGED userSockets

ChangeTurn(s, room_id) ==
    LET o == RoomsGet(room_id)
        cleared == clearTurnTimer(RT(o))
        nextTurn == getNextTurn(cleared.room)
    IN  /\ IsOpen(s)
        /\ IF o = 0 THEN NoRoom
           ELSE /\ IF nextTurn = -1
                   THEN /\ PutRT(o, cleared)
                        /\ out' = <<Ev("game_over", "room", [reason |-> "No active players"])>>
                   ELSE /\ PutRT(o, startTurnTimer(
                                 [cleared EXCEPT !.room.currentTurn = nextTurn]))
                        /\ out' = <<Ev("turn_changed", "room",
                                       cleared.room.players[nextTurn + 1].peerId)>>
                /\ UNCHANGED <<redisReady, users, redis, rooms, sockets, settleTimers,
                               cleanupTimers, graceTimers, tasks, ledger>>
        /\ UNCHANGED userSockets

\* room.players[peer_id].status = status, when that element exists
SetStatus(room, peer_id, status) ==
    IF peer_id + 1 \in 1 .. Len(room.players)
    THEN [room EXCEPT !.players[peer_id + 1].status = status]
    ELSE room

\* an ending that marks no winner
CrownNobody(room) == room

\* room.players.find(p => p.status === PLAYING).status = WIN
CrownSurvivor(room) ==
    LET w == FindIndex(room.players, IsPlaying)
    IN  IF w = 0 THEN room ELSE [room EXCEPT !.players[w].status = PLAYER_STATUS_WIN]

WinGame(s, room_id, peer_id) ==
    LET o == RoomsGet(room_id)
        won == SetStatus(objs[o], peer_id, PLAYER_STATUS_WIN)
        pre == <<Ev("win_game", "others", peer_id)>>
        rt == clearTurnTimer([room |-> [won EXCEPT !.status = GAME_STATUS_FINISHED],
                              pending |-> turnTimers[o]])
    IN  /\ IsOpen(s)
        /\ IF o = 0 THEN NoRoom
           ELSE IF PlayingCount(won) <= 1
           THEN /\ PutRT(o, rt)
                /\ updatePlayerCoinsAndStats(o, calculateGameResults(rt.room),
                                             "win_game", room_id, pre)
                /\ UNCHANGED <<redisReady, rooms, sockets, settleTimers, graceTimers>>
           ELSE /\ objs' = [objs EXCEPT ![o] = won]
                /\ out' = pre
                /\ UNCHANGED <<redisReady, users, redis, rooms, sockets, turnTimers,
                               settleTimers, cleanupTimers, graceTimers, tasks, ledger>>
        /\ UNCHANGED userSockets

LeaveRoom(s, room_id, peer_id) ==
    LET o == RoomsGet(room_id)
        left == SetStatus(objs[o], peer_id, PLAYER_STATUS_LEFT)
        pre == <<Ev("leave_room", "others", peer_id)>>
        activeCount == PlayingCount(left)
        cleared == clearTurnTimer([room |-> left, pending |-> turnTimers[o]])
        winner == FindIndex(left.players, IsPlaying)
        ended == [cleared EXCEPT !.room = CrownSurvivor(
                                    [@ EXCEPT !.status = GAME_STATUS_FINISHED])]
    IN  /\ IsOpen(s)
        /\ IF o = 0 THEN NoRoom
           ELSE /\ sockets' = [sockets EXCEPT ![s].currentRoomId = Null]
                /\ IF \/ activeCount = 0
                      \/ left.status = GAME_STATUS_WAITING /\ Len(left.players) = 0
                   THEN /\ PutRT(o, cleared)
                        /\ rooms' = RoomsDelete(rooms, room_id)
                        /\ out' = pre
                        /\ UNCHANGED <<users, redis, cleanupTimers, tasks, ledger>>
                   ELSE IF activeCount = 1 /\ left.status = GAME_STATUS_PLAYING
                   THEN /\ PutRT(o, ended)
                        /\ updatePlayerCoinsAndStats(o, calculateGameResults(ended.room),
                               "leave_room", room_id,
                               Append(pre, Ev("win_game", "room",
                                              left.players[winner].peerId)))
                        /\ UNCHANGED rooms
                   ELSE /\ objs' = [objs EXCEPT ![o] = left]
                        /\ out' = pre
                        /\ UNCHANGED <<users, redis, rooms, turnTimers, cleanupTimers,
                                       tasks, ledger>>
                /\ UNCHANGED <<redisReady, settleTimers, graceTimers>>
        /\ UNCHANGED userSockets

\* ------------------------------------------------- reconnection, leaving
\* a get_previous_room that sends the room data and leaves player.socketId
\* as it was
GetPreviousRoomKeepsSocket(s, room_id, user_id) ==
    LET o == RoomsGet(room_id)
        i == FindIndex(objs[o].players, LAMBDA p : p.userId = user_id)
    IN  /\ IsOpen(s)
        /\ IF o = 0
           THEN /\ out' = <<Ev("room_not_found", "socket", "Room not found or expired")>>
                /\ UNCHANGED sockets
           ELSE IF i = 0
           THEN /\ out' = <<Ev("room_not_found", "socket", "Player not in room")>>
                /\ UNCHANGED sockets
           ELSE /\ sockets' = [sockets EXCEPT ![s].currentRoomId = room_id]
                /\ out' = <<Ev("previous_room_data", "socket",
                               [peer_id |-> objs[o].players[i].peerId,
                                turn_id |-> objs[o].currentTurn])>>
        /\ UNCHANGED <<redisReady, users, redis, objs, rooms, turnTimers, settleTimers,
                       cleanupTimers, graceTimers, tasks, ledger>>
        /\ UNCHANGED userSockets

GetPreviousRoom(s, room_id, user_id) ==
    LET o == RoomsGet(room_id)
        i == FindIndex(objs[o].players, LAMBDA p : p.userId = user_id)
    IN  /\ IsOpen(s)
        /\ IF o = 0
           THEN /\ out' = <<Ev("room_not_found", "socket", "Room not found or expired")>>
                /\ UNCHANGED <<objs, sockets>>
           ELSE IF i = 0
           THEN /\ out' = <<Ev("room_not_found", "socket", "Player not in room")>>
                /\ UNCHANGED <<objs, sockets>>
           ELSE /\ objs' = [objs EXCEPT ![o].players[i].socketId = s]
                /\ sockets' = [sockets EXCEPT ![s].currentRoomId = room_id]
                /\ out' = <<Ev("previous_room_data", "socket",
                               [peer_id |-> objs[o].players[i].peerId,
                                turn_id |-> objs[o].currentTurn])>>
        /\ UNCHANGED <<redisReady, users, redis, rooms, turnTimers, settleTimers,
                       cleanupTimers, graceTimers, tasks, ledger>>
        /\ UNCHANGED userSockets

RemoveFromMatchmaking(s, userId) ==
    LET e == FindIndex(rooms, LAMBDA x :
                 /\ objs[x.obj].status = GAME_STATUS_WAITING
                 /\ \E k \in 1 .. Len(objs[x.obj].players) :
                        objs[x.obj].players[k].userId = userId)
        o == rooms[e].obj
        playerIndex == FindIndex(objs[o].players, LAMBDA p : p.userId = userId)
        spliced == RemoveAt(objs[o].players, playerIndex)
    IN  /\ IsOpen(s)
        /\ out' = <<>>
        /\ IF e = 0
           THEN UNCHANGED <<objs, rooms>>
           ELSE /\ objs' = [objs EXCEPT ![o].players = spliced]
                /\ rooms' = IF Len(spliced) = 0
                            THEN RoomsDelete(rooms, rooms[e].key)
                            ELSE rooms
        /\ UNCHANGED <<redisReady, users, redis, sockets, turnTimers, settleTimers,
                       cleanupTimers, graceTimers, tasks, ledger>>
        /\ UNCHANGED userSockets

Disconnect(s) ==
    LET o == RoomsGet(sockets[s].currentRoomId)
        i == FindIndex(objs[o].players, LAMBDA p : p.socketId = s)
    IN  /\ IsOpen(s)
        /\ sockets' = [sockets EXCEPT ![s].state = "closed"]
        /\ graceTimers' =
              IF sockets[s].currentRoomId # Null /\ o # 0 /\ i # 0
              THEN [graceTimers EXCEPT ![s] =
                       [userId |-> objs[o].players[i].userId,
                        peerId |-> objs[o].players[i].peerId,
                        roomId |-> objs[o].roomId]]
              ELSE graceTimers
        /\ userSockets' = IF sockets[s].userId # Null
                          THEN [userSockets EXCEPT ![sockets[s].userId] = 0]
                          ELSE userSockets
        /\ out' = <<>>
        /\ UNCHANGED <<redisReady, users, redis, objs, rooms, turnTimers, settleTimers,
                       cleanupTimers, tasks, ledger>>

\* a grace callback that also counts a strike against the player it marks
GraceExpireStrikes(s) ==
    LET g == graceTimers[s]
        o == RoomsGet(sockets[s].currentRoomId)
        i == FindIndex(objs[o].players, LAMBDA p : p.userId = g.userId)
    IN  /\ g # NoGrace
        /\ graceTimers' = [graceTimers EXCEPT ![s] = NoGrace]
        /\ IF o # 0 /\ i # 0 /\ objs[o].players[i].socketId = s
           THEN /\ objs' = [objs EXCEPT ![o].players[i].status = PLAYER_STATUS_TIMEOUT,
                                        ![o].players[i].numoftimeout = @ + 1]
                /\ out' = <<Ev("user_timeout", "others", g.peerId)>>
           ELSE /\ out' = <<>>
                /\ UNCHANGED objs
        /\ UNCHANGED <<redisReady, users, redis, rooms, sockets, turnTimers,
                       settleTimers, cleanupTimers, tasks, ledger>>
        /\ UNCHANGED userSockets

\* the 30 s callback of the disconnect handler
GraceExpire(s) ==
    LET g == graceTimers[s]
        o == RoomsGet(sockets[s].currentRoomId)
        i == FindIndex(objs[o].players, LAMBDA p : p.userId = g.userId)
    IN  /\ g # NoGrace
        /\ graceTimers' = [graceTimers EXCEPT ![s] = NoGrace]
        /\ IF o # 0 /\ i # 0 /\ objs[o].players[i].socketId = s
           THEN /\ objs' = [objs EXCEPT ![o].players[i].status = PLAYER_STATUS_TIMEOUT]
                /\ out' = <<Ev("user_timeout", "others", g.peerId)>>
           ELSE /\ out' = <<>>
                /\ UNCHANGED objs
        /\ UNCHANGED <<redisReady, users, redis, rooms, sockets, turnTimers,
                       settleTimers, cleanupTimers, tasks, ledger>>
        /\ UNCHANGED userSockets

\* ------------------------------------------------------- timer callbacks
\* a fire that counts two strikes at once
StrikeTwice(room, c) == [room EXCEPT !.players[c].numoftimeout = @ + 2]

\* currentPlayer.numoftimeout++
Strike(room, c) == [room EXCEPT !.players[c].numoftimeout = @ + 1]

\* the callback startTurnTimer scheduled for room object o
TurnTimeout(o) ==
    LET room == objs[o]
        pending == turnTimers[o] - 1
        c == room.currentTurn + 1
        struck == Strike(room, c)
        counterEv == Ev("user_timeout_counter", "room",
                        [peer_id |-> struck.players[c].peerId,
                         numoftimeout |-> struck.players[c].numoftimeout])
        isOut == struck.players[c].numoftimeout >= MaxTimeouts
        marked == IF isOut
                  THEN [struck EXCEPT !.players[c].status = PLAYER_STATUS_TIMEOUT]
                  ELSE struck
        pre == IF isOut
               THEN <<counterEv, Ev("user_timeout", "room", marked.players[c].peerId)>>
               ELSE <<counterEv>>
        activeCount == PlayingCount(marked)
        winner == FindIndex(marked.players, IsPlaying)
        nextTurn == getNextTurn(marked)
    IN  /\ o \in ObjIds
        /\ turnTimers[o] > 0
        /\ IF ~(c \in 1 .. Len(room.players) /\ IsPlaying(room.players[c]))
           THEN /\ turnTimers' = [turnTimers EXCEPT ![o] = pending]
                /\ out' = <<>>
                /\ UNCHANGED <<users, redis, objs, settleTimers, cleanupTimers, tasks,
                               ledger>>
           ELSE IF isOut /\ activeCount = 1
           THEN /\ PutRT(o, clearTurnTimer(
                        [room |-> [CrownSurvivor(marked) EXCEPT
                                      !.status = GAME_STATUS_FINISHED],
                         pending |-> pending]))
                /\ settleTimers' = [settleTimers EXCEPT ![o] = @ + 1]
                /\ out' = Append(pre, Ev("win_game", "room",
                                         marked.players[winner].peerId))
                /\ UNCHANGED <<users, redis, cleanupTimers, tasks, ledger>>
           ELSE IF (isOut /\ activeCount = 0) \/ nextTurn = -1
           THEN /\ PutRT(o, clearTurnTimer([room |-> marked, pending |-> pending]))
                /\ updatePlayerCoinsAndStats(o, calculateGameResults(marked),
                                             "timer", marked.roomId, pre)
                /\ UNCHANGED settleTimers
           ELSE /\ PutRT(o, startTurnTimer(
                        [room |-> [marked EXCEPT !.currentTurn = nextTurn],
                         pending |-> pending]))
                /\ out' = Append(pre, Ev("turn_changed", "room",
                                         marked.players[nextTurn + 1].peerId))
                /\ UNCHANGED <<users, redis, settleTimers, cleanupTimers, tasks,
                               ledger>>
        /\ UNCHANGED <<redisReady, rooms, sockets, graceTimers>>
        /\ UNCHANGED userSockets

\* the 2 s callback scheduled by the timeout auto-win
DelayedSettle(o) ==
    /\ o \in ObjIds
    /\ settleTimers[o] > 0
    /\ settleTimers' = [settleTimers EXCEPT ![o] = @ - 1]
    /\ updatePlayerCoinsAndStats(o, calculateGameResults(objs[o]), "delayed",
                                 objs[o].roomId, <<>>)
    /\ UNCHANGED <<redisReady, objs, rooms, sockets, turnTimers, graceTimers>>
    /\ UNCHANGED userSockets

\* the 10 s callback scheduled by win_game: rooms.delete(room_id)
Cleanup ==
    /\ cleanupTimers # <<>>
    /\ rooms' = RoomsDelete(rooms, Head(cleanupTimers))
    /\ cleanupTimers' = Tail(cleanupTimers)
    /\ out' = <<>>
    /\ UNCHANGED <<redisReady, users, redis, objs, sockets, turnTimers, settleTimers,
                   graceTimers, tasks, ledger>>
    /\ UNCHANGED userSockets

\* ------------------------------------------------------------ specifications
\* Each specification runs the handlers of one part of the server against
\* clients that send the values of its scope S; Within bounds the run.
Within(maxRooms, maxTasks, maxSettle) ==
    /\ Len(objs) <= maxRooms
    /\ Len(tasks) <= maxTasks
    /\ \A o \in ObjIds : ledger[o].runs <= maxSettle

\* the move log of every room holds at most maxMoves moves
MovesWithin(maxMoves) ==
    \A o \in ObjIds : Len(objs[o].gameData.moves) <= maxMoves

Connects(S)    == \E s \in S.socks : Connect(s)
Userdatas(S)   == \E s \in S.socks, u \in S.users : GetUserdata(s, u)
Joins(S)       == \E s \in S.socks, u \in S.users, b \in S.bets, n \in S.sizes :
                      RequestJoin(s, u, b, n)
FriendCreates(S) == \E s \in S.socks, u \in S.users, b \in S.bets, n \in S.sizes,
                       c \in RoomCodes \cup {NoCode} : FriendCreateRoom(s, u, b, n, c)
FriendJoins(S) == \E s \in S.socks, u \in S.users, c \in KeyInputs :
                      FriendJoinRoom(s, u, c)
Dice(S)        == \E s \in S.socks, r \in RoomIds, p \in S.peers, d \in DiceValues :
                      DiceSend(s, r, p, d)
Turns(S)       == \E s \in S.socks, r \in RoomIds : ChangeTurn(s, r)
Wins(S)        == \E s \in S.socks, r \in RoomIds, p \in S.peers : WinGame(s, r, p)
Leaves(S)      == \E s \in S.socks, r \in RoomIds, p \in S.peers : LeaveRoom(s, r, p)
Removes(S)     == \E s \in S.socks, u \in S.users : RemoveFromMatchmaking(s, u)
Tokens(S)      == \E s \in S.socks, r \in RoomIds, p \in S.peers : TokenSend(s, r, p)
AddUsers(S)    == \E s \in S.socks, u \in S.users : AddUser(s, u)
Disconnects(S) == \E s \in S.socks : Disconnect(s)
Reconnects(S)  == \E s \in S.socks, r \in RoomIds, u \in S.users : GetPreviousRoom(s, r, u)
GraceExpires   == \E s \in SocketIds : GraceExpire(s)
TurnTimeouts   == \E o \in ObjIds : TurnTimeout(o)
DelayedSettles == \E o \in ObjIds : DelayedSettle(o)
Resumes        == \E i \in 1 .. Len(tasks) :
                      GetUserdataResume(i) \/ RequestJoinResume(i)

\* Spec: one 2-player matchmade table from construction, served from the
\* in-memory store (Redis never ready): joins, turns, wins, leaves, timers.
Table      == [socks |-> {1}, users |-> {"A", "B"}, bets |-> {500}, sizes |-> {2}, peers |-> {0, 1}]
TableBound == Within(TableRooms, 0, TableSettle)

Next ==
    \/ Connects(Table) /\ TableBound'
    \/ Userdatas(Table) /\ TableBound'
    \/ Joins(Table) /\ TableBound'
    \/ Dice(Table) /\ TableBound'
    \/ Turns(Table) /\ TableBound'
    \/ Wins(Table) /\ TableBound'
    \/ Leaves(Table) /\ TableBound'
    \/ Removes(Table) /\ TableBound'
    \/ TurnTimeouts /\ TableBound'
    \/ DelayedSettles /\ TableBound'
    \/ Cleanup /\ TableBound'

Spec == Init /\ [][Next]_vars

\* SpecFour: one 4-player matchmade table: joins, wins, leaves and
\* remove_from_matchmaking.
Four      == [socks |-> {1}, users |-> {"A", "B"}, bets |-> {500}, sizes |-> {4}, peers |-> {0, 1, 2}]
FourBound == Within(FourRooms, 0, FourSettle)

NextFour ==
    \/ Connects(Four) /\ FourBound'
    \/ Userdatas(Four) /\ FourBound'
    \/ Joins(Four) /\ FourBound'
    \/ Wins(Four) /\ FourBound'
    \/ Leaves(Four) /\ FourBound'
    \/ Removes(Four) /\ FourBound'
    \/ Cleanup /\ FourBound'

SpecFour == Init /\ [][NextFour]_vars

\* SpecWild: clients that also send a negative room_coin_value and a
\* room_players_size of 0.
Wild      == [socks |-> {1}, users |-> {"A", "B"}, bets |-> {500, -1500}, sizes |-> {0, 2}, peers |-> {0, 1}]
WildBound == Within(WildRooms, 0, WildSettle)

NextWild ==
    \/ Connects(Wild) /\ WildBound'
    \/ Userdatas(Wild) /\ WildBound'
    \/ Joins(Wild) /\ WildBound'
    \/ Wins(Wild) /\ WildBound'
    \/ Cleanup /\ WildBound'

SpecWild == Init /\ [][NextWild]_vars

\* SpecFriend: one friend room: create, join by code, win, leave.
Friend      == [socks |-> {1}, users |-> {"A", "B"}, bets |-> {500}, sizes |-> {2}, peers |-> {0, 1}]
FriendBound == Within(FriendRooms, 0, FriendSettle)

NextFriend ==
    \/ Connects(Friend) /\ FriendBound'
    \/ Userdatas(Friend) /\ FriendBound'
    \/ FriendCreates(Friend) /\ FriendBound'
    \/ FriendJoins(Friend) /\ FriendBound'
    \/ Wins(Friend) /\ FriendBound'
    \/ Leaves(Friend) /\ FriendBound'
    \/ Cleanup /\ FriendBound'

SpecFriend == Init /\ [][NextFriend]_vars

\* SpecRedis: the Redis client becomes ready and stays ready; get_userdata
\* and request_join suspend on its commands, friend_create_room reads the
\* in-memory map.  The friend room asks for more than any balance.
Redis       == [socks |-> {1}, users |-> {"A", "B"}, bets |-> {500}, sizes |-> {2}, peers |-> {0, 1}]
RedisFriend == [socks |-> {1}, users |-> {"A", "B"}, bets |-> {1500}, sizes |-> {2}, peers |-> {0, 1}]
RedisBound  == Within(RedisRooms, RedisTasks, 0)

NextRedis ==
    \/ Connects(Redis) /\ RedisBound'
    \/ ~redisReady /\ RedisFlip /\ RedisBound'
    \/ Userdatas(Redis) /\ RedisBound'
    \/ Joins(Redis) /\ RedisBound'
    \/ FriendCreates(RedisFriend) /\ RedisBound'
    \/ Resumes /\ RedisBound'

SpecRedis == Init /\ [][NextRedis]_vars

\* SpecTurn: the turn machinery of one 2-player table: dice_send, token_send,
\* change_turn, win_game, leave_room and the timer callbacks.
Turn      == [socks |-> {1}, users |-> {"A", "B"}, bets |-> {500}, sizes |-> {2},
              peers |-> {0, 1}]
TurnBound == Within(TurnRooms, 0, TurnSettle) /\ MovesWithin(TurnMoves)

NextTurn ==
    \/ Connects(Turn) /\ TurnBound'
    \/ Userdatas(Turn) /\ TurnBound'
    \/ Joins(Turn) /\ TurnBound'
    \/ Dice(Turn) /\ TurnBound'
    \/ Tokens(Turn) /\ TurnBound'
    \/ Turns(Turn) /\ TurnBound'
    \/ Wins(Turn) /\ TurnBound'
    \/ Leaves(Turn) /\ TurnBound'
    \/ TurnTimeouts /\ TurnBound'
    \/ DelayedSettles /\ TurnBound'
    \/ Cleanup /\ TurnBound'

SpecTurn == Init /\ [][NextTurn]_vars

\* SpecGrace: a 2-player table whose players lose their connection: the
\* players join on connection 1; connection 2 is the new connection of a
\* player who comes back with get_previous_room; either may disconnect, and
\* the grace and turn timers run.
Grace      == [socks |-> {1}, users |-> {"A", "B"}, bets |-> {500}, sizes |-> {2},
               peers |-> {0, 1}]
GraceNew   == [socks |-> {2}, users |-> {"A", "B"}, bets |-> {500}, sizes |-> {2},
               peers |-> {0, 1}]
GraceBoth  == [socks |-> {1, 2}, users |-> {"A", "B"}, bets |-> {500}, sizes |-> {2},
               peers |-> {0, 1}]
GraceBound == Within(GraceRooms, 0, GraceSettle)

NextGrace ==
    \/ Connects(GraceBoth) /\ GraceBound'
    \/ Userdatas(Grace) /\ GraceBound'
    \/ Joins(Grace) /\ GraceBound'
    \/ Disconnects(GraceBoth) /\ GraceBound'
    \/ Reconnects(GraceNew) /\ GraceBound'
    \/ GraceExpires /\ GraceBound'
    \/ TurnTimeouts /\ GraceBound'
    \/ DelayedSettles /\ GraceBound'

SpecGrace == Init /\ [][NextGrace]_vars

\* SpecQuad: one 4-player matchmade table joined by four users: joins and
\* wins.
Quad      == [socks |-> {1}, users |-> {"A", "B", "C", "D"}, bets |-> {500}, sizes |-> {4}, peers |-> {0, 1, 2}]
QuadBound == Within(QuadRooms, 0, QuadSettle)

NextQuad ==
    \/ Connects(Quad) /\ QuadBound'
    \/ Userdatas(Quad) /\ QuadBound'
    \/ Joins(Quad) /\ QuadBound'
    \/ Wins(Quad) /\ QuadBound'

SpecQuad == Init /\ [][NextQuad]_vars

\* SpecIdle: two-player matchmade tables whose players send nothing once
\* the game has started: only the turn timer and the delayed settlement run.
Idle      == [socks |-> {1}, users |-> {"A", "B"}, bets |-> {500}, sizes |-> {2}, peers |-> {0, 1}]
IdleBound == Within(IdleRooms, 0, IdleSettle)

NextIdle ==
    \/ Connects(Idle) /\ IdleBound'
    \/ Userdatas(Idle) /\ IdleBound'
    \/ Joins(Idle) /\ IdleBound'
    \/ TurnTimeouts /\ IdleBound'
    \/ DelayedSettles /\ IdleBound'

SpecIdle == Init /\ [][NextIdle]_vars

\* SpecLobby: the lobby: friend rooms and matchmade tables of two sizes wait
\* side by side in the registry while request_join looks for a table.
Lobby      == [socks |-> {1}, users |-> {"A", "B"}, bets |-> {500}, sizes |-> {2, 4}, peers |-> {0, 1}]
LobbyBound == Within(LobbyRooms, 0, 0)

NextLobby ==
    \/ Connects(Lobby) /\ LobbyBound'
    \/ Userdatas(Lobby) /\ LobbyBound'
    \/ FriendCreates(Lobby) /\ LobbyBound'
    \/ Joins(Lobby) /\ LobbyBound'

SpecLobby == Init /\ [][NextLobby]_vars

\* SpecQuiet: tables, matchmade or friend rooms, whose clients may fall
\* silent at any moment: joins and win_game are never forced, while every
\* scheduled callback (turn timer, delayed settlement, rooms.delete) that
\* stays pending eventually runs.
Quiet      == [socks |-> {1}, users |-> {"A", "B"}, bets |-> {500}, sizes |-> {2}, peers |-> {0, 1}]
QuietBound == Within(QuietRooms, 0, QuietSettle)

NextQuiet ==
    \/ Connects(Quiet) /\ QuietBound'
    \/ Userdatas(Quiet) /\ QuietBound'
    \/ Joins(Quiet) /\ QuietBound'
    \/ FriendCreates(Quiet) /\ QuietBound'
    \/ FriendJoins(Quiet) /\ QuietBound'
    \/ Wins(Quiet) /\ QuietBound'
    \/ TurnTimeouts /\ QuietBound'
    \/ DelayedSettles /\ QuietBound'
    \/ Cleanup /\ QuietBound'

\* the event loop runs every callback whose timer has expired
TimersRun ==
    /\ WF_vars(TurnTimeouts /\ QuietBound')
    /\ WF_vars(DelayedSettles /\ QuietBound')
    /\ WF_vars(Cleanup /\ QuietBound')

SpecQuiet == Init /\ [][NextQuiet]_vars /\ TimersRun

\* SpecSession: the session registry: users bind connections with add_user
\* and connections end, in any order.
Session == [socks |-> {1, 2}, users |-> {"A", "B"}, bets |-> {500}, sizes |-> {2},
            peers |-> {0, 1}]

NextSession ==
    \/ Connects(Session)
    \/ AddUsers(Session)
    \/ Disconnects(Session)

SpecSession == Init /\ [][NextSession]_vars

\* SpecRound: the turn order of one 4-player table: players join, win,
\* leave and time out of the reconnection grace period while change_turn
\* moves the turn.
Round      == [socks |-> {1}, users |-> {"A", "B"}, bets |-> {500}, sizes |-> {4},
               peers |-> {0, 1, 2, 3}]
RoundBound == Within(RoundRooms, 0, RoundSettle)

NextRound ==
    \/ Connects(Round) /\ RoundBound'
    \/ Userdatas(Round) /\ RoundBound'
    \/ Joins(Round) /\ RoundBound'
    \/ Turns(Round) /\ RoundBound'
    \/ Wins(Round) /\ RoundBound'
    \/ Leaves(Round) /\ RoundBound'
    \/ Disconnects(Round) /\ RoundBound'
    \/ GraceExpires /\ RoundBound'

SpecRound == Init /\ [][NextRound]_vars

\* SpecPass: a 2-player table joined on connection 1 whose players lose
\* their connection while connection 2 keeps sending change_turn: the grace
\* and turn timers run.
PassBound == Within(PassRooms, 0, PassSettle)

NextPass ==
    \/ Connects(GraceBoth) /\ PassBound'
    \/ Userdatas(Grace) /\ PassBound'
    \/ Joins(Grace) /\ PassBound'
    \/ Turns(GraceBoth) /\ PassBound'
    \/ Disconnects(GraceBoth) /\ PassBound'
    \/ GraceExpires /\ PassBound'
    \/ TurnTimeouts /\ PassBound'
    \/ DelayedSettles /\ PassBound'

SpecPass == Init /\ [][NextPass]_vars

\* SpecLoop: one 2-player table served from Redis: get_userdata, request_join
\* and the settlement loop of win_game suspend on the Redis commands and
\* resume in any order.
LoopBound == Within(LoopRooms, LoopTasks, LoopSettle)

NextLoop ==
    \/ Connects(Redis) /\ LoopBound'
    \/ ~redisReady /\ RedisFlip /\ LoopBound'
    \/ Userdatas(Redis) /\ LoopBound'
    \/ Joins(Redis) /\ LoopBound'
    \/ Wins(Redis) /\ LoopBound'
    \/ Resumes /\ LoopBound'
    \/ (\E i \in 1 .. Len(tasks) : SettleResume(i)) /\ LoopBound'

SpecLoop == Init /\ [][NextLoop]_vars

\* -------------------------------------------------------------- properties
\* what the properties speak of
StoreUser(u) == IF redisReady THEN redis[u] ELSE users[u]
Spent(user)  == IF user = NoUser THEN 0 ELSE StartCoins - user.coins
\* the coins user u has paid, out of the in-memory map and out of Redis
Paid(u) == Spent(users[u]) + Spent(redis[u])
\* the bets of the seats user u holds
Stakes(u) == SeqSum([o \in ObjIds |->
                 objs[o].betAmount * Count(objs[o].players, LAMBDA p : p.userId = u)])
\* the bets of the request_join handlers of u that have saved the deducted
\* user and are about to seat it
BeingSeated(u) == SeqSum([i \in 1 .. Len(tasks) |->
                      IF tasks[i].kind = "rj_save" /\ tasks[i].user_id = u
                      THEN tasks[i].bet_amount ELSE 0])
\* the step has emitted game_over with the results of room object o
GameOverOf(o) == \E k \in 1 .. Len(out) :
                     /\ out[k].ev = "game_over"
                     /\ out[k].data = [results |-> calculateGameResults(objs[o])]
\* the step has replied insufficient_coins and touched nothing
Refused(required, current) ==
    /\ Len(out') = 1
    /\ out'[1].ev = "insufficient_coins"
    /\ out'[1].data = [required |-> required, current |-> current]
    /\ UNCHANGED <<rooms, objs, users, redis>>
AnyBets  == Table.bets \cup Wild.bets \cup RedisFriend.bets
AnySizes == Table.sizes \cup Four.sizes \cup Wild.sizes
AnyCodes == RoomCodes \cup {NoCode}

\* C1: each game is settled at most once: updatePlayerCoinsAndStats runs at
\* most one time for a room, whatever win_game, leave_room, turn-timer,
\* delayed-settlement, dice_send and change_turn events arrive, also on a
\* FINISHED room still in the registry.
SettledAtMostOnce == \A o \in ObjIds : ledger[o].runs <= 1

\* C2: when a room is settled, every user seated in it (once, paying its seat
\* from the coins get_userdata gave) has coins after settlement - coins before
\* joining = the winning_coin of the emitted results - bet_amount.
SettledNetOfBet ==
    \A o \in ObjIds :
        LET room == objs[o]
            results == calculateGameResults(room)
        IN  ( /\ Len(objs) = 1
              /\ ledger[o].runs >= 1
              /\ GameOverOf(o)
              /\ ledger[o].deducted = room.betAmount * Len(room.players)
              /\ \A i, j \in 1 .. Len(room.players) :
                     i # j => room.players[i].userId # room.players[j].userId )
            => \A i \in 1 .. Len(results) :
                   users[results[i].user_id].coins - StartCoins
                       = results[i].winning_coin - room.betAmount

\* C3: settlement never creates coins: the winning_coin credited for a room
\* never exceeds the bet_amount deducted for its seats.
NoCoinsCreated == \A o \in ObjIds : ledger[o].credited <= ledger[o].deducted

\* C4: every seat costs exactly one bet: while no get_userdata of the user is
\* in flight, the coins a user has paid are the bets of the seats it holds
\* plus the bets of its joins that have saved and are about to seat, also
\* when two joins of the user overlap at the Redis read and write.
EverySeatOneBet ==
    \A u \in UserIds :
        (\A i \in 1 .. Len(tasks) :
             tasks[i].user_id = u => tasks[i].kind \notin {"gu_get", "gu_save"})
        => Paid(u) = Stakes(u) + BeingSeated(u)

\* C5: no deduction without a seat: a request_join, friend_create_room or
\* friend_join_room that ends without adding the caller to a roster (every
\* rejection reply of friend_join_room included) leaves the caller's coins
\* as they were.
NoSeatNoCharge ==
    [][ /\ \A s \in SocketIds, u \in UserIds, c \in KeyInputs :
               FriendJoinRoom(s, u, c) /\ objs' = objs
                   => users'[u] = users[u] /\ redis'[u] = redis[u]
        /\ \A s \in SocketIds, u \in UserIds, b \in AnyBets, n \in AnySizes,
              c \in AnyCodes :
               FriendCreateRoom(s, u, b, n, c) /\ objs' = objs
                   => users'[u] = users[u] /\ redis'[u] = redis[u]
        /\ \A s \in SocketIds, u \in UserIds, b \in AnyBets, n \in AnySizes :
               ~redisReady /\ RequestJoin(s, u, b, n) /\ objs' = objs
                   => users'[u] = users[u] /\ redis'[u] = redis[u]
      ]_vars

\* C6: a request_join, friend_create_room or friend_join_room by a known user
\* whose coins are less than the bet emits exactly one event,
\* insufficient_coins {required = bet, current = coins}, and leaves the
\* registry, the rosters and the coins unchanged.
InsufficientCoinsRefused ==
    [][ /\ \A s \in SocketIds, u \in UserIds, b \in AnyBets, n \in AnySizes,
              c \in AnyCodes :
               ( /\ FriendCreateRoom(s, u, b, n, c)
                 /\ StoreUser(u) # NoUser
                 /\ StoreUser(u).coins < b )
                   => Refused(b, StoreUser(u).coins)
        /\ \A s \in SocketIds, u \in UserIds, c \in KeyInputs :
               ( /\ FriendJoinRoom(s, u, c)
                 /\ RoomsGet(c) # 0
                 /\ StoreUser(u) # NoUser
                 /\ StoreUser(u).coins < objs[RoomsGet(c)].betAmount )
                   => Refused(objs[RoomsGet(c)].betAmount, StoreUser(u).coins)
        /\ \A s \in SocketIds, u \in UserIds, b \in AnyBets, n \in AnySizes :
               ( /\ ~redisReady
                 /\ RequestJoin(s, u, b, n)
                 /\ users[u] # NoUser
                 /\ users[u].coins < b )
                   => Refused(b, users[u].coins)
        /\ \A i \in 1 .. Len(tasks) :
               ( /\ tasks[i].kind = "rj_get"
                 /\ RequestJoinResume(i)
                 /\ tasks[i].user # NoUser
                 /\ tasks[i].user.coins < tasks[i].bet_amount )
                   => Refused(tasks[i].bet_amount, tasks[i].user.coins)
      ]_vars

\* C7: every user's coins are a non-negative integer in every reachable
\* state.
CoinsNonNegative ==
    \A u \in UserIds : /\ users[u] # NoUser => users[u].coins \in Nat
                       /\ redis[u] # NoUser => redis[u].coins \in Nat

\* C8: every room of the registry has at most max_players players.
RosterWithinMax ==
    \A e \in 1 .. Len(rooms) :
        Len(objs[rooms[e].obj].players) <= objs[rooms[e].obj].maxPlayers

\* C9: in every room players[i].peer_id = i; peer ids are unique and a
\* player's roster position never changes.
PeerIdIsIndex ==
    \A o \in ObjIds : \A i \in 1 .. Len(objs[o].players) :
        objs[o].players[i].peerId = i - 1

\* C10: while a room of the registry is PLAYING, the player at current_turn
\* has status PLAYING.
TurnOnPlaying ==
    \A e \in 1 .. Len(rooms) :
        LET room == objs[rooms[e].obj]
        IN  room.status = GAME_STATUS_PLAYING
            => /\ room.currentTurn + 1 \in 1 .. Len(room.players)
               /\ room.players[room.currentTurn + 1].status = PLAYER_STATUS_PLAYING

\* C11: for every room at most one turn-timer callback is pending at any
\* time: every arming of the turn timer cancels the previously armed one.
OneTurnTimer == \A o \in ObjIds : turnTimers[o] <= 1

\* a PLAYING room with a move logged: its timer has been armed more than once
OneTurnTimerRearmed ==
    \E o \in ObjIds : /\ objs[o].status = GAME_STATUS_PLAYING
                      /\ Len(objs[o].gameData.moves) >= 1
                      /\ objs[o].turnTimer # Null
                      /\ turnTimers[o] = 1

\* C12: every room of the registry has a bet_amount that is a positive
\* integer and max_players in {2, 4}, whatever room_coin_value and
\* room_players_size clients send.
ValidStakes ==
    \A e \in 1 .. Len(rooms) :
        LET room == objs[rooms[e].obj]
        IN  /\ room.betAmount \in Nat \ {0}
            /\ room.maxPlayers \in {2, 4}

\* the sum of winning_coin over a results list
SumWinnings(results) ==
    SeqSum([i \in 1 .. Len(results) |-> results[i].winning_coin])

\* C13: for every completed game in a room with max_players = 2, whichever
\* path ended it, the winning_coin of the emitted results sum to
\* 2 x bet_amount.
PairPoolPaidOut ==
    \A o \in ObjIds :
        objs[o].maxPlayers = 2 /\ GameOverOf(o)
            => SumWinnings(calculateGameResults(objs[o])) = 2 * objs[o].betAmount

\* the number of players of a room whose status is WIN
WinCount(room) == Count(room.players, IsWin)

\* C14: whenever game_over is emitted for a room with maxPlayers = 4, the
\* winning_coin of its results sum to 4 x betAmount if at least two players
\* are WIN and to 3 x betAmount if exactly one player is WIN.
QuadPoolPaidOut ==
    \A o \in ObjIds :
        objs[o].maxPlayers = 4 /\ GameOverOf(o)
            => LET total == SumWinnings(calculateGameResults(objs[o]))
               IN  /\ WinCount(objs[o]) >= 2 => total = 4 * objs[o].betAmount
                   /\ WinCount(objs[o]) = 1 => total = 3 * objs[o].betAmount
\* a full four-player room settles with at least two winners
QuadPoolTwoWinners ==
    \E o \in ObjIds : /\ objs[o].maxPlayers = 4
                      /\ Len(objs[o].players) = 4
                      /\ GameOverOf(o)
                      /\ WinCount(objs[o]) >= 2
                      /\ objs[o].betAmount > 0
\* a four-player room settles with exactly one winner
QuadPoolOneWinner ==
    \E o \in ObjIds : /\ objs[o].maxPlayers = 4
                      /\ GameOverOf(o)
                      /\ WinCount(objs[o]) = 1

\* room object o is a two-player table in play that two different users
\* joined with one bet each, both still PLAYING, not yet settled
PairInPlay(o) ==
    LET room == objs[o]
    IN  /\ room.status = GAME_STATUS_PLAYING
        /\ room.maxPlayers = 2
        /\ Len(room.players) = 2
        /\ room.players[1].userId # room.players[2].userId
        /\ IsPlaying(room.players[1]) /\ IsPlaying(room.players[2])
        /\ room.betAmount > 0
        /\ ledger[o].deducted = 2 * room.betAmount
        /\ ledger[o].runs = 0
\* one entry of the results of game_over
Result(user_id, winning_coin, player_rank, player_status) ==
    [user_id |-> user_id, winning_coin |-> winning_coin,
     player_rank |-> player_rank, player_status |-> player_status]
\* the step has emitted game_over with these results
GameOverWith(results) ==
    \E k \in 1 .. Len(out') : /\ out'[k].ev = "game_over"
                              /\ out'[k].data = [results |-> results]

\* C15: in a two-player matchmade room that two users joined with bet b, both
\* PLAYING, a win_game of one player makes the room FINISHED in that step and
\* emits game_over with results <<winner: rank 1, 2b, WIN; other: rank 2, 0,
\* PLAYING>>; the winner's coins rise by 2b and the other's stay, which for
\* users on their first table is start + b and start - b.
PairWinSettles ==
    [][ \A s \in SocketIds, r \in RoomIds, p \in {0, 1} :
            LET o == RoomsGet(r)
                b == objs[o].betAmount
                w == objs[o].players[p + 1].userId
                l == objs[o].players[2 - p].userId
            IN  ( /\ ~redisReady
                  /\ o # 0
                  /\ PairInPlay(o)
                  /\ WinGame(s, r, p) )
                => /\ objs'[o].status = GAME_STATUS_FINISHED
                   /\ GameOverWith(<<Result(w, 2 * b, 1, PLAYER_STATUS_WIN),
                                     Result(l, 0, 2, PLAYER_STATUS_PLAYING)>>)
                   /\ users'[w].coins = users[w].coins + 2 * b
                   /\ users'[l].coins = users[l].coins
                   /\ Len(objs) = 1 => /\ users'[w].coins = StartCoins + b
                                       /\ users'[l].coins = StartCoins - b
      ]_vars
\* the second player of a two-player table has won it: the room is FINISHED,
\* the winner listed first, start + b and start - b coins
PairWinSettled ==
    \E o \in ObjIds :
        /\ objs[o].status = GAME_STATUS_FINISHED
        /\ Len(objs[o].players) = 2
        /\ objs[o].players[1].userId = "A" /\ IsPlaying(objs[o].players[1])
        /\ objs[o].players[2].userId = "B" /\ IsWin(objs[o].players[2])
        /\ Len(out) = 2
        /\ out[1].ev = "win_game"
        /\ out[2].ev = "game_over"
        /\ out[2].data = [results |->
               <<Result("B", 2 * objs[o].betAmount, 1, PLAYER_STATUS_WIN),
                 Result("A", 0, 2, PLAYER_STATUS_PLAYING)>>]
        /\ users["B"].coins = StartCoins + objs[o].betAmount
        /\ users["A"].coins = StartCoins - objs[o].betAmount
        /\ ledger[o].runs = 1

\* room object o is a four-player table in play that four different users
\* joined with one bet each, not yet settled, whose first wins players are
\* WIN and whose other players are PLAYING
QuadInPlay(o, wins) ==
    LET room == objs[o]
    IN  /\ room.status = GAME_STATUS_PLAYING
        /\ room.maxPlayers = 4
        /\ Len(room.players) = 4
        /\ \A i, j \in 1 .. 4 : i # j => room.players[i].userId # room.players[j].userId
        /\ \A i \in 1 .. 4 : IF i <= wins THEN IsWin(room.players[i])
                                           ELSE IsPlaying(room.players[i])
        /\ room.betAmount > 0
        /\ ledger[o].deducted = 4 * room.betAmount
        /\ ledger[o].runs = 0
\* the step has emitted no game_over and has settled nothing
NoSettlement ==
    /\ \A k \in 1 .. Len(out') : out'[k].ev # "game_over"
    /\ UNCHANGED <<users, redis, ledger, cleanupTimers>>

\* C16: in a four-player PLAYING room with bet b, the win_game of P0 and then
\* of P1 leave the room PLAYING and settle nothing; the win_game of P2 that
\* follows makes it FINISHED with results paying P0 3b, P1 b, P2 0 and P3 0:
\* coins +3b, +b, 0, 0 in that step, which for users on their first table is
\* +2b, 0, -b, -b relative to the coins before joining.
QuadWinsSettle ==
    [][ \A s \in SocketIds, r \in RoomIds :
            LET o == RoomsGet(r)
                b == objs[o].betAmount
                P(i) == objs[o].players[i + 1].userId
            IN  /\ \A n \in {0, 1} :
                       ( /\ ~redisReady
                         /\ o # 0
                         /\ QuadInPlay(o, n)
                         /\ WinGame(s, r, n) )
                       => /\ objs'[o].status = GAME_STATUS_PLAYING
                          /\ PlayingCount(objs'[o]) = 3 - n
                          /\ IsWin(objs'[o].players[n + 1])
                          /\ NoSettlement
                /\ ( /\ ~redisReady
                      /\ o # 0
                      /\ QuadInPlay(o, 2)
                      /\ WinGame(s, r, 2) )
                    => /\ objs'[o].status = GAME_STATUS_FINISHED
                       /\ GameOverWith(<<Result(P(0), 3 * b, 1, PLAYER_STATUS_WIN),
                                         Result(P(1), b, 2, PLAYER_STATUS_WIN),
                                         Result(P(2), 0, 3, PLAYER_STATUS_WIN),
                                         Result(P(3), 0, 4, PLAYER_STATUS_PLAYING)>>)
                       /\ users'[P(0)].coins = users[P(0)].coins + 3 * b
                       /\ users'[P(1)].coins = users[P(1)].coins + b
                       /\ users'[P(2)].coins = users[P(2)].coins
                       /\ users'[P(3)].coins = users[P(3)].coins
                       /\ Len(objs) = 1 => /\ users'[P(0)].coins = StartCoins + 2 * b
                                           /\ users'[P(1)].coins = StartCoins
                                           /\ users'[P(2)].coins = StartCoins - b
                                           /\ users'[P(3)].coins = StartCoins - b
      ]_vars
\* P0, P1 and P2 of a table of four users have won in that order and the
\* table is settled: FINISHED, coins +2b, 0, -b, -b
QuadWinsSettled ==
    \E o \in ObjIds :
        LET room == objs[o]
            b == room.betAmount
        IN  /\ room.status = GAME_STATUS_FINISHED
            /\ room.maxPlayers = 4
            /\ Len(room.players) = 4
            /\ \A i, j \in 1 .. 4 : i # j => room.players[i].userId # room.players[j].userId
            /\ \A i \in 1 .. 3 : IsWin(room.players[i])
            /\ IsPlaying(room.players[4])
            /\ Len(out) = 2
            /\ out[1].ev = "win_game"
            /\ out[1].data = 2
            /\ out[2].ev = "game_over"
            /\ ledger[o].runs = 1
            /\ users[room.players[1].userId].coins = StartCoins + 2 * b
            /\ users[room.players[2].userId].coins = StartCoins
            /\ users[room.players[3].userId].coins = StartCoins - b
            /\ users[room.players[4].userId].coins = StartCoins - b

\* room object o is a two-player table that has started
PairStarted(o) ==
    /\ objs[o].maxPlayers = 2
    /\ Len(objs[o].players) = 2
    /\ objs[o].status # GAME_STATUS_WAITING
\* the turn-timer fires room object o has seen, when its players send
\* nothing: every fire adds one to the numoftimeout of the player on turn
Fires(o) == objs[o].players[1].numoftimeout + objs[o].players[2].numoftimeout
\* the user_timeout_counter event
CounterEv(peer_id, numoftimeout) ==
    Ev("user_timeout_counter", "room",
       [peer_id |-> peer_id, numoftimeout |-> numoftimeout])
\* the fire that removes P0: user_timeout for P0, P1 the sole PLAYING player
\* is marked WIN, the room is FINISHED and the delayed settlement scheduled
RemovesP0(o) ==
    /\ out' = <<CounterEv(0, MaxTimeouts), Ev("user_timeout", "room", 0),
                Ev("win_game", "room", 1)>>
    /\ objs'[o].players[1].numoftimeout = MaxTimeouts
    /\ objs'[o].players[1].status = PLAYER_STATUS_TIMEOUT
    /\ objs'[o].players[2].status = PLAYER_STATUS_WIN
    /\ objs'[o].status = GAME_STATUS_FINISHED
    /\ settleTimers'[o] = settleTimers[o] + 1
\* a fire that strikes the player on turn and passes the turn
PassesTurn(o, from, strikes) ==
    /\ out' = <<CounterEv(from, strikes), Ev("turn_changed", "room", 1 - from)>>
    /\ objs'[o].players[from + 1].numoftimeout = strikes
    /\ objs'[o].currentTurn = 1 - from
    /\ objs'[o].status = GAME_STATUS_PLAYING
    /\ IsPlaying(objs'[o].players[1]) /\ IsPlaying(objs'[o].players[2])
\* the delayed settlement pays P1 2 x bet
P1Paid(o) ==
    GameOverWith(<<Result(objs[o].players[2].userId, 2 * objs[o].betAmount, 1,
                          PLAYER_STATUS_WIN),
                   Result(objs[o].players[1].userId, 0, 2, PLAYER_STATUS_TIMEOUT)>>)

\* C17: in a two-player PLAYING room with P0 on turn whose players send
\* nothing, every turn-timer fire emits user_timeout_counter for the player
\* on turn and the turn alternates P0, P1, P0, P1, P0: the first four fires
\* pass the turn, and the fifth is the one on which P0's counter reaches 3:
\* user_timeout for P0, P1 is the sole PLAYING player and is marked WIN, and
\* the delayed settlement emits game_over in which P1 wins 2 x bet.
FifthFireRemovesP0 ==
    [][ \A o \in ObjIds :
            /\ TurnTimeout(o) /\ PairStarted(o)
                => /\ Fires(o) <= 4
                   /\ objs[o].currentTurn = Fires(o) % 2
                   /\ IF Fires(o) < 4
                      THEN PassesTurn(o, Fires(o) % 2, (Fires(o) \div 2) + 1)
                      ELSE RemovesP0(o)
            /\ DelayedSettle(o) /\ PairStarted(o)
                => Fires(o) = 5 /\ P1Paid(o)
      ]_vars
\* C17 as stated: the first and second fires emit user_timeout_counter and
\* pass the turn to P1 and back to P0, and the third fire is the one on
\* which P0's counter reaches 3 and P0 is removed.
ThirdFireRemovesP0 ==
    [][ \A o \in ObjIds :
            /\ TurnTimeout(o) /\ PairStarted(o) /\ Fires(o) < 2
                => PassesTurn(o, Fires(o) % 2, 1)
            /\ TurnTimeout(o) /\ PairStarted(o) /\ Fires(o) = 2
                => RemovesP0(o)
            /\ DelayedSettle(o) /\ PairStarted(o)
                => P1Paid(o)
      ]_vars
\* a table of A and B has idled to its end: P0 removed on its third strike,
\* the fifth fire, and P1 paid 2 x bet by the delayed settlement
IdledOut ==
    \E o \in ObjIds :
        /\ PairStarted(o)
        /\ objs[o].status = GAME_STATUS_FINISHED
        /\ objs[o].players[1].userId # objs[o].players[2].userId
        /\ objs[o].players[1].numoftimeout = 3
        /\ objs[o].players[2].numoftimeout = 2
        /\ objs[o].players[1].status = PLAYER_STATUS_TIMEOUT
        /\ IsWin(objs[o].players[2])
        /\ ledger[o].runs = 1
        /\ ledger[o].credited = 2 * objs[o].betAmount
        /\ GameOverOf(o)
        /\ users[objs[o].players[2].userId].coins = StartCoins + objs[o].betAmount

\* user u has come back to room object o with get_previous_room on a new
\* connection (the connections that never join a table themselves): the new
\* connection has joined the room's channel, and the seats it holds are
\* seats of u
CameBack(u, o) ==
    \E n \in GraceNew.socks :
        /\ sockets[n].currentRoomId = objs[o].roomId
        /\ \A i \in 1 .. Len(objs[o].players) :
               objs[o].players[i].socketId = n => objs[o].players[i].userId = u
\* peer_id and status of every player of every room are as before the step
SeatsKept ==
    /\ Len(objs') = Len(objs)
    /\ \A o \in ObjIds :
           /\ Len(objs'[o].players) = Len(objs[o].players)
           /\ \A i \in 1 .. Len(objs[o].players) :
                  /\ objs'[o].players[i].peerId = objs[o].players[i].peerId
                  /\ objs'[o].players[i].status = objs[o].players[i].status
                  /\ objs'[o].players[i].userId = objs[o].players[i].userId

\* C18: when the grace timer of a closed connection fires after its player's
\* user_id has sent get_previous_room for the room on a new connection, it
\* changes no player status and emits no user_timeout; get_previous_room
\* itself leaves every peer_id and status as it was.
ReconnectBeatsGrace ==
    [][ /\ \A s \in Grace.socks :
               LET g == graceTimers[s]
                   o == RoomsGet(sockets[s].currentRoomId)
               IN  ( /\ g # NoGrace
                     /\ o # 0
                     /\ CameBack(g.userId, o)
                     /\ GraceExpire(s) )
                   => /\ SeatsKept
                      /\ \A k \in 1 .. Len(out') : out'[k].ev # "user_timeout"
        /\ \A s \in SocketIds, r \in RoomIds, u \in UserIds :
               GetPreviousRoom(s, r, u) => SeatsKept
      ]_vars
\* connection 1 has closed and its grace timer has fired after A came back
\* on connection 2: A still holds seat 0 of the PLAYING room, PLAYING
GraceFiredAfterReconnect ==
    \E o \in ObjIds :
        /\ objs[o].status = GAME_STATUS_PLAYING
        /\ Len(objs[o].players) = 2
        /\ sockets[1].state = "closed"
        /\ sockets[1].currentRoomId = objs[o].roomId
        /\ sockets[2].currentRoomId = objs[o].roomId
        /\ graceTimers[1] = NoGrace
        /\ objs[o].players[1].userId = "A"
        /\ objs[o].players[1].socketId = 2
        /\ objs[o].players[1].peerId = 0
        /\ IsPlaying(objs[o].players[1])
        /\ objs[o].players[2].userId = "B"
        /\ objs[o].players[2].socketId = 1
        /\ IsPlaying(objs[o].players[2])
        /\ out = <<>>

\* the registry entries request_join may seat a caller of (bet, size) in
Candidates(bet, size) ==
    {e \in 1 .. Len(rooms) :
        LET room == objs[rooms[e].obj]
        IN  /\ room.status = GAME_STATUS_WAITING
            /\ room.betAmount = bet
            /\ room.maxPlayers = size
            /\ Len(room.players) < size}
\* the step has appended user u, on connection s, to the roster of room
\* object o and has left every other room and the registry alone
SeatedIn(o, u, s) ==
    /\ Len(objs') = Len(objs)
    /\ rooms' = rooms
    /\ objs'[o].players = Append(objs[o].players,
                                 createPlayer(u, Len(objs[o].players), s))
    /\ \A x \in ObjIds \ {o} : objs'[x] = objs[x]
\* the step has registered a new room of (bet, size) at the end of the
\* registry, with u alone in it, and has left every other room alone
SeatedInNew(u, s, bet, size) ==
    /\ Len(objs') = Len(objs) + 1
    /\ Len(rooms') = Len(rooms) + 1
    /\ SubSeq(rooms', 1, Len(rooms)) = rooms
    /\ rooms'[Len(rooms')].obj = Len(objs')
    /\ objs'[Len(objs')].players = <<createPlayer(u, 0, s)>>
    /\ objs'[Len(objs')].betAmount = bet
    /\ objs'[Len(objs')].maxPlayers = size
    /\ \A x \in ObjIds : objs'[x] = objs[x]

\* C19: findAvailableRoom(bet, size) returns the earliest-inserted room of
\* the registry that is WAITING, has that bet_amount, has that max_players
\* and has fewer than size players, and null exactly when there is none;
\* request_join seats the caller in that room, or in a new room when null.
EarliestWaitingRoom ==
    [][ \A b \in AnyBets, n \in AnySizes :
            LET hits == Candidates(b, n)
                first == CHOOSE e \in hits : \A f \in hits : e <= f
                found == findAvailableRoom(rooms, objs, b, n)
            IN  /\ (found = 0) = (hits = {})
                /\ hits # {} => found = rooms[first].obj
                /\ \A s \in SocketIds, u \in UserIds :
                       ( /\ ~redisReady
                         /\ IsOpen(s)
                         /\ users[u] # NoUser
                         /\ users[u].coins >= b
                         /\ RequestJoin(s, u, b, n) )
                       => IF hits = {} THEN SeatedInNew(u, s, b, n)
                          ELSE SeatedIn(rooms[first].obj, u, s)
      ]_vars
\* request_join has filled the earlier of two waiting rooms of the same bet
\* and size: the first is PLAYING, the second still WAITING
EarlierRoomFilled ==
    /\ Len(rooms) >= 2
    /\ LET a == objs[rooms[1].obj]
           c == objs[rooms[2].obj]
       IN  /\ a.status = GAME_STATUS_PLAYING
           /\ Len(a.players) = 2
           /\ c.status = GAME_STATUS_WAITING
           /\ c.betAmount = a.betAmount
           /\ c.maxPlayers = a.maxPlayers
           /\ Len(c.players) = 1
    /\ Len(out) = 1
    /\ out[1].ev = "game_start"

\* room object o was made by friend_create_room: its roomId is a code, the
\* client's room_code or the six characters minted for it, and not the
\* uuid request_join gives the rooms it makes
IsFriendRoom(o) == objs[o].roomId # UuidOf(o)

\* C20: a friend room is joinable only through its code: a step that adds a
\* player to the roster of a room made by friend_create_room is a
\* friend_join_room carrying that room's code; request_join never seats a
\* player in a friend room.
FriendRoomByCodeOnly ==
    [][ \A o \in ObjIds :
            ( /\ IsFriendRoom(o)
              /\ Len(objs') >= o
              /\ Len(objs'[o].players) > Len(objs[o].players) )
            => \E s \in SocketIds, u \in UserIds :
                   FriendJoinRoom(s, u, objs[o].roomId)
      ]_vars

\* room object o is in the registry
Registered(o) == \E e \in 1 .. Len(rooms) : rooms[e].obj = o
\* room object o exists and is FINISHED
Finished(o) == o \in ObjIds /\ objs[o].status = GAME_STATUS_FINISHED

\* C21: every room whose status becomes FINISHED is eventually removed from
\* the registry, whichever path finished it, given that scheduled callbacks
\* eventually run.
FinishedRoomRemoved ==
    \A o \in 1 .. QuietRooms : Finished(o) ~> ~Registered(o)

\* C22: a turn-timer fire on a room that is FINISHED, or that is no longer
\* in the registry, does nothing: no numoftimeout, player status or
\* currentTurn changes, no event is emitted, no settlement runs and no new
\* timer is armed.
LateFireDoesNothing ==
    [][ \A o \in ObjIds :
            ( /\ TurnTimeout(o)
              /\ objs[o].status = GAME_STATUS_FINISHED \/ ~Registered(o) )
            => /\ objs' = objs
               /\ out' = <<>>
               /\ turnTimers'[o] = turnTimers[o] - 1
               /\ UNCHANGED <<users, redis, ledger, settleTimers>>
      ]_vars

\* C23: while a room is WAITING no dice or token action takes effect on it:
\* a dice_send or token_send addressed to a WAITING room leaves lastDice,
\* the move log, the turn timer (unarmed), currentTurn and every player's
\* status and numoftimeout as they were.
WaitingRoomUntouched ==
    [][ \A s \in SocketIds, r \in RoomIds, p \in Turn.peers :
            LET o == RoomsGet(r)
            IN  ( /\ o # 0
                  /\ objs[o].status = GAME_STATUS_WAITING
                  /\ \/ TokenSend(s, r, p)
                     \/ \E d \in DiceValues : DiceSend(s, r, p, d) )
                => /\ objs'[o] = objs[o]
                   /\ turnTimers'[o] = turnTimers[o]
      ]_vars

\* C24: whenever a join (request_join or friend_join_room) fills the roster
\* of a WAITING room and makes it PLAYING, that same step sets currentTurn
\* to 0, emits game_start to the room and arms the turn timer.
StartArmsTimer ==
    [][ \A o \in ObjIds :
            ( /\ objs[o].status = GAME_STATUS_WAITING
              /\ objs'[o].status = GAME_STATUS_PLAYING
              /\ Len(objs'[o].players) = Len(objs[o].players) + 1 )
            => /\ objs'[o].currentTurn = 0
               /\ \E k \in 1 .. Len(out') : out'[k] = gameStart(objs'[o])
               /\ objs'[o].turnTimer # Null
               /\ turnTimers'[o] = 1
      ]_vars

\* the record of a user nobody has changed yet, and what user_data says of a
\* stored record
FreshUser == [coins |-> StartCoins, level |-> 1, winCount |-> 0, lostCount |-> 0,
              totalGamesPlayed |-> 0]
Reported(user) ==
    Ev("user_data", "socket",
       [user_coin |-> user.coins, numof_win |-> user.winCount,
        numof_lose |-> user.lostCount, user_level |-> user.level,
        total_games |-> user.totalGamesPlayed])

UserdataOfNewUserOnRedis ==
    \E u \in UserIds :
        /\ redisReady
        /\ redis[u] = FreshUser
        /\ out = <<Reported(FreshUser)>>

\* C26: the session registry maps each user_id to the user's currently
\* connected handle: add_user binds the user_id to the calling connection,
\* and while that connection stays open the binding is replaced only by a
\* newer add_user of the same user_id, whatever older connections do.
SessionFollowsLatestBind ==
    [][ \A u \in UserIds, s \in SocketIds :
            /\ AddUser(s, u) => userSockets'[u] = s
            /\ ( /\ userSockets[u] = s
                  /\ IsOpen(s)
                  /\ sockets'[s].state = "open"
                  /\ \A n \in SocketIds : ~AddUser(n, u) )
                => userSockets'[u] = s
      ]_vars

\* C27: a player of a PLAYING room whose status became WIN stays WIN until
\* the room is settled: no leave_room, disconnect-grace expiry, win_game or timer fire
\* changes that status before updatePlayerCoinsAndStats has run for the room.
WinnerStaysWinner ==
    [][ \A o \in ObjIds :
            \A i \in 1 .. Len(objs[o].players) :
                ( /\ objs[o].status = GAME_STATUS_PLAYING
                  /\ IsWin(objs[o].players[i])
                  /\ ledger[o].runs = 0 )
                => IsWin(objs'[o].players[i])
      ]_vars

\* room object o exists and is PLAYING
InPlay(o) == o \in ObjIds /\ objs[o].status = GAME_STATUS_PLAYING

\* C28: inactivity always terminates a game: a PLAYING room, matchmade or
\* friend room, whose clients send nothing more eventually becomes FINISHED
\* with its settlement run and game_over emitted, given that armed timers
\* fire.
InactivityEndsGame ==
    \A o \in 1 .. QuietRooms :
        InPlay(o) ~> (Finished(o) /\ ledger[o].runs >= 1)

\* the 0-based indexes of the PLAYING players of a room
PlayingSeats(room) ==
    {i \in 0 .. Len(room.players) - 1 : IsPlaying(room.players[i + 1])}
\* how many positions after (currentTurn + 1) mod N the scan reaches index i
ScanDistance(room, i) ==
    (i + Len(room.players) - room.currentTurn - 1) % Len(room.players)
\* index i is what the scan from (currentTurn + 1) mod N finds first
FirstPlayingAfterTurn(room, i) ==
    /\ i \in PlayingSeats(room)
    /\ \A j \in PlayingSeats(room) : ScanDistance(room, i) <= ScanDistance(room, j)

\* C29: getNextTurn(room) is the index of the first PLAYING player met by a
\* scan of N = len(players) positions from (currentTurn + 1) mod N, wrapping
\* around (currentTurn itself when it is the only PLAYING player), and is -1
\* exactly when no player is PLAYING; WIN, LEFT and TIMEOUT players are
\* never returned.
NextTurnIsFirstPlaying ==
    \A o \in ObjIds :
        LET room == objs[o]
            r == getNextTurn(room)
        IN  /\ (r = -1) = (PlayingSeats(room) = {})
            /\ r # -1 => FirstPlayingAfterTurn(room, r)
\* change_turn has passed the turn from P2 over the LEFT P3 and the WIN P0
\* to P1
TurnWrappedPastWinner ==
    \E o \in ObjIds :
        /\ Len(objs[o].players) = 4
        /\ IsWin(objs[o].players[1])
        /\ IsPlaying(objs[o].players[2])
        /\ IsPlaying(objs[o].players[3])
        /\ objs[o].players[4].status = PLAYER_STATUS_LEFT
        /\ objs[o].currentTurn = 1
        /\ getNextTurn(objs[o]) = 2
        /\ out = <<Ev("turn_changed", "room", 1)>>

\* C30: every change_turn handled for a registered PLAYING room leaves
\* currentTurn at the index getNextTurn chose and exactly one turn timer
\* armed, and every dice_send and token_send handled for such a room leaves
\* exactly one turn timer armed.
TurnAlwaysPassed ==
    [][ \A s \in SocketIds, r \in RoomIds :
            LET o == RoomsGet(r)
            IN  (o # 0 /\ objs[o].status = GAME_STATUS_PLAYING) =>
                    /\ ChangeTurn(s, r) =>
                            /\ objs'[o].currentTurn = getNextTurn(objs[o])
                            /\ objs'[o].turnTimer # Null
                            /\ turnTimers'[o] = 1
                    /\ (\E p \in Turn.peers :
                            \/ TokenSend(s, r, p)
                            \/ \E d \in DiceValues : DiceSend(s, r, p, d)) =>
                            /\ objs'[o].turnTimer # Null
                            /\ turnTimers'[o] = 1
      ]_vars

\* the player whose turn it is in a room
CurrentPlayer(room) == room.players[room.currentTurn + 1]

\* C31: in a PLAYING room a dice_send or token_send whose peer_id is not the
\* current player's, and a change_turn from a connection that is not the
\* current player's, leave currentTurn, lastDice, the move log and the turn
\* timer of the room unchanged.
OnlyCurrentPlayerActs ==
    [][ \A s \in SocketIds, r \in RoomIds :
            LET o == RoomsGet(r)
            IN  (o # 0 /\ objs[o].status = GAME_STATUS_PLAYING) =>
                    /\ ( /\ CurrentPlayer(objs[o]).socketId # s
                         /\ ChangeTurn(s, r) ) => 
                            /\ objs'[o].currentTurn = objs[o].currentTurn
                            /\ objs'[o].gameData = objs[o].gameData
                            /\ turnTimers'[o] = turnTimers[o]
                    /\ \A p \in Turn.peers :
                        ( /\ CurrentPlayer(objs[o]).peerId # p
                          /\ \/ TokenSend(s, r, p)
                             \/ \E d \in DiceValues : DiceSend(s, r, p, d) ) =>
                            /\ objs'[o].currentTurn = objs[o].currentTurn
                            /\ objs'[o].gameData = objs[o].gameData
                            /\ turnTimers'[o] = turnTimers[o]
      ]_vars

\* C32: every player's numoftimeout stays within 0 .. 3; it changes only at
\* a turn-timer fire on that player's turn, by exactly 1, every fire on the
\* turn of a PLAYING player counts, no dice_send, token_send or change_turn
\* resets it, and the turn timer marks a player TIMEOUT exactly at the fire
\* that brings the counter to 3.
TimeoutCounterCumulative ==
    /\ [](\A o \in ObjIds : \A i \in 1 .. Len(objs[o].players) :
              objs[o].players[i].numoftimeout \in 0 .. MaxTimeouts)
    /\ [][ \A o \in ObjIds : \A i \in 1 .. Len(objs[o].players) :
               LET a == objs[o].players[i]
                   b == objs'[o].players[i]
                   fired == TurnTimeout(o) /\ objs[o].currentTurn = i - 1
               IN  /\ b.numoftimeout # a.numoftimeout =>
                          fired /\ b.numoftimeout = a.numoftimeout + 1
                   /\ (fired /\ IsPlaying(a)) => b.numoftimeout = a.numoftimeout + 1
                   /\ TurnTimeout(o) =>
                          ( (a.status # PLAYER_STATUS_TIMEOUT
                                /\ b.status = PLAYER_STATUS_TIMEOUT)
                            <=> (fired /\ IsPlaying(a) /\ b.numoftimeout = MaxTimeouts) )
         ]_vars
\* on a full table on which the dice was rolled a player has been struck out
\* by the third fire on their turn
ThirdStrikeAfterDice ==
    \E o \in ObjIds : \E i \in 1 .. Len(objs[o].players) :
        /\ Len(objs[o].players) = 2
        /\ objs[o].status = GAME_STATUS_FINISHED
        /\ objs[o].players[i].numoftimeout = MaxTimeouts
        /\ objs[o].players[i].status = PLAYER_STATUS_TIMEOUT
        /\ objs[o].gameData.lastDice # 0
        /\ Len(out) >= 2
        /\ out[1] = Ev("user_timeout_counter", "room",
                       [peer_id |-> objs[o].players[i].peerId,
                        numoftimeout |-> MaxTimeouts])

\* the step has emitted a game_over event of any kind
GameOverEmitted == \E k \in 1 .. Len(out) : out[k].ev = "game_over"

\* C33: whenever settlement has run for a room whose game had started, or
\* game_over has just been emitted on the single started table of the scope,
\* the room's status is FINISHED and its turn timer is disarmed.
TerminatedIsFinished ==
    \A o \in ObjIds :
        ( /\ objs[o].status # GAME_STATUS_WAITING
          /\ ledger[o].runs >= 1 \/ (Len(objs) = 1 /\ GameOverEmitted) ) =>
            /\ objs[o].status = GAME_STATUS_FINISHED
            /\ objs[o].turnTimer = Null
            /\ turnTimers[o] = 0

\* C34: when the 2 s delayed settlement of the timeout auto-win runs for a
\* room that is no longer in the registry, it credits no coins, updates no
\* stats and emits no game_over.
DelayedSettleRechecksRoom ==
    [][ \A o \in ObjIds :
            (DelayedSettle(o) /\ ~Registered(o)) =>
                /\ UNCHANGED <<users, redis, ledger>>
                /\ \A k \in 1 .. Len(out') : out'[k].ev # "game_over"
      ]_vars

\* task i is a settlement loop suspended on a Redis command
Settling(i) == tasks[i].kind \in {"st_get", "st_save"}

\* the suspended settlement loop i has entries of its results left to credit
EntriesLeft(i) ==
    IF tasks[i].kind = "st_get" THEN tasks[i].idx <= Len(tasks[i].call.results)
    ELSE tasks[i].idx < Len(tasks[i].call.results)

\* C35: while a settlement loop is suspended with entries of its results
\* left to credit, so that other handlers run, none of its credits is in the
\* store yet: the credits of one settlement become visible together, before
\* game_over.
SettlementCommitsTogether ==
    \A i \in 1 .. Len(tasks) :
        (Settling(i) /\ EntriesLeft(i)) => ledger[tasks[i].call.obj].credited = 0

\* C36: the expiry of the disconnect grace of connection s changes at most
\* the status of the departed player, to TIMEOUT and only when that user's
\* seat still carries s; it leaves every numoftimeout, currentTurn, the room
\* status, the turn timer, every other status and all balances unchanged,
\* and settles nothing.
GraceOnlyMarksDeparted ==
    [][ \A s \in SocketIds :
            GraceExpire(s) =>
                /\ UNCHANGED <<users, redis, ledger, turnTimers, settleTimers,
                               cleanupTimers, rooms>>
                /\ \A k \in 1 .. Len(out') : out'[k].ev \notin {"game_over", "win_game"}
                /\ \A o \in ObjIds :
                       /\ objs'[o].status = objs[o].status
                       /\ objs'[o].currentTurn = objs[o].currentTurn
                       /\ objs'[o].turnTimer = objs[o].turnTimer
                       /\ Len(objs'[o].players) = Len(objs[o].players)
                       /\ \A i \in 1 .. Len(objs[o].players) :
                              LET a == objs[o].players[i]
                                  b == objs'[o].players[i]
                              IN  /\ b.numoftimeout = a.numoftimeout
                                  /\ b.status # a.status =>
                                         /\ b.status = PLAYER_STATUS_TIMEOUT
                                         /\ a.socketId = s
                                         /\ a.userId = graceTimers[s].userId
                                         /\ a.peerId = graceTimers[s].peerId
      ]_vars
\* the grace of connection 1 has expired and marked its PLAYING player
\* TIMEOUT in a PLAYING room whose turn timer stays armed
GraceMarkedPlayer ==
    \E o \in ObjIds : \E i \in 1 .. Len(objs[o].players) :
        /\ objs[o].status = GAME_STATUS_PLAYING
        /\ Len(objs[o].players) = 2
        /\ turnTimers[o] = 1
        /\ sockets[1].state = "closed"
        /\ graceTimers[1] = NoGrace
        /\ objs[o].players[i].socketId = 1
        /\ objs[o].players[i].status = PLAYER_STATUS_TIMEOUT
        /\ objs[o].players[i].numoftimeout = 0
        /\ out = <<Ev("user_timeout", "others", objs[o].players[i].peerId)>>

\* the seats of a room still PLAYING once seat c has left
StillPlaying(room, c) ==
    {j \in 1 .. Len(room.players) : j # c /\ IsPlaying(room.players[j])}

\* C37: in a PLAYING room a leave_room after which exactly one player is
\* PLAYING makes the room FINISHED in that step: the leaver is LEFT, the
\* remaining player WIN, the turn timer disarmed, settlement has run once
\* and game_over carries the ranked results; a leave_room after which two or
\* more players are PLAYING keeps the room PLAYING and settles nothing.
LastLeaveEndsGame ==
    [][ \A s \in SocketIds, r \in RoomIds, p \in Round.peers :
            LET o == RoomsGet(r)
                remain == StillPlaying(objs[o], p + 1)
            IN  ( /\ o # 0
                  /\ objs[o].status = GAME_STATUS_PLAYING
                  /\ LeaveRoom(s, r, p) ) =>
                    /\ objs'[o].players[p + 1].status = PLAYER_STATUS_LEFT
                    /\ Cardinality(remain) = 1 =>
                           /\ objs'[o].status = GAME_STATUS_FINISHED
                           /\ \A j \in remain : IsWin(objs'[o].players[j])
                           /\ \A j \in 1 .. Len(objs[o].players) :
                                  j \notin remain \cup {p + 1} =>
                                      objs'[o].players[j] = objs[o].players[j]
                           /\ objs'[o].turnTimer = Null
                           /\ turnTimers'[o] = 0
                           /\ ledger'[o].runs = ledger[o].runs + 1
                           /\ GameOverWith(calculateGameResults(objs'[o]))
                           /\ Registered(o)'
                    /\ Cardinality(remain) >= 2 =>
                           /\ objs'[o].status = GAME_STATUS_PLAYING
                           /\ \A j \in remain : IsPlaying(objs'[o].players[j])
                           /\ NoSettlement
      ]_vars
\* the third leave_room of a 4-player game has ended it: three players LEFT,
\* the fourth WIN and paid 3 x bet
LastOfFourWins ==
    \E o \in ObjIds :
        /\ objs[o].status = GAME_STATUS_FINISHED
        /\ Len(objs[o].players) = 4
        /\ Cardinality({j \in 1 .. 4 : objs[o].players[j].status = PLAYER_STATUS_LEFT}) = 3
        /\ Cardinality({j \in 1 .. 4 : IsWin(objs[o].players[j])}) = 1
        /\ ledger[o].runs = 1
        /\ ledger[o].credited = 3 * objs[o].betAmount
        /\ Len(out) = 3
        /\ out[1].ev = "leave_room"
        /\ out[3].ev = "game_over"

\* the roster indexes of the WIN players of a room
WinSeats(room) == {i \in 1 .. Len(room.players) : IsWin(room.players[i])}
\* the k-th smallest element of a set of roster indexes
Nth(S, k) == CHOOSE i \in S : Cardinality({j \in S : j <= i}) = k
\* the roster index ranked k: the WIN players in roster order, then the
\* others in roster order
SeatOfRank(room, k) ==
    LET W == WinSeats(room)
    IN  IF k <= Cardinality(W) THEN Nth(W, k)
        ELSE Nth((1 .. Len(room.players)) \ W, k - Cardinality(W))
\* what rank k of a WIN player pays
Prize(room, k) ==
    IF room.maxPlayers = 2 THEN 2 * room.betAmount
    ELSE IF room.maxPlayers = 4 /\ k = 1 THEN 3 * room.betAmount
    ELSE IF room.maxPlayers = 4 /\ k = 2 THEN room.betAmount
    ELSE 0

FriendCreateKeepsExisting ==
    [][ \A s \in SocketIds, u \in UserIds, b \in Lobby.bets, n \in Lobby.sizes,
           c \in RoomCodes :
            LET o == RoomsGet(c)
            IN  (o # 0 /\ FriendCreateRoom(s, u, b, n, c)) =>
                    /\ \E e \in 1 .. Len(rooms') : /\ rooms'[e].key = c
                                                   /\ rooms'[e].obj = o
                    /\ objs'[o] = objs[o]
                    /\ turnTimers'[o] = turnTimers[o]
      ]_vars

\* C40: no roster holds the same user_id in two seats.
OneSeatPerUser ==
    \A o \in ObjIds : \A i, j \in 1 .. Len(objs[o].players) :
        i # j => objs[o].players[i].userId # objs[o].players[j].userId
====
